---- MODULE Spec2Model ----
(***************************************************************************)
(* Document / Annotation graph of pytorch-ie (src/src/pytorch_ie/core/     *)
(* document.py) with the annotation classes used by its tests, and the     *)
(* TaskModule protocol with the Pipeline (src/pytorch_ie/taskmodules,      *)
(* src/pytorch_ie/pipeline.py).                                            *)
(*                                                                         *)
(* A client creates a handful of annotation objects (the pool), constructs *)
(* one document of some declared type, mutates its layers through          *)
(* append / extend / clear and finally serialises it (asdict) and          *)
(* deserialises it again (fromdict), possibly twice, or converts it        *)
(* (as_type) and subscripts it.  Another client encodes a list of          *)
(* documents with a task module, forwards the encodings in batches and     *)
(* decodes the outputs into the documents, or lets the pipeline do so.     *)
(***************************************************************************)
EXTENDS Integers, Sequences, FiniteSets, TLC

VARIABLES doc, heap, exc, rt, ret, documents, encodings, decoded_outputs, call,
          module, taskmodule, metric

\* the document under mutation and conversion
docvars == <<doc, heap, exc, rt, ret>>

\* the documents, encodings and outputs a task module works on
taskvars == <<documents, encodings, decoded_outputs, call>>

\* a preparable module, a task module with its label vocabulary, and a document metric
modvars == <<module, taskmodule, metric>>

vars == <<doc, heap, exc, rt, ret, documents, encodings, decoded_outputs, call,
         module, taskmodule, metric>>

(***************************************************************************)
(* Bounds                                                                  *)
(***************************************************************************)
\* total number of entries held by all gold and prediction lists
MaxEntries == 3

\* number of encodings encode_input gives for one list of documents
MaxEncodings == 2

\* number of prepare() calls made on one module
MaxPrepare == 2

(***************************************************************************)
(* Python values                                                           *)
(***************************************************************************)
None == [k |-> "none", v |-> ""]
StrV(s) == [k |-> "str", v |-> s]
\* a metadata dict, named by its content; "" is the empty dict
DictV(s) == [k |-> "dict", v |-> s]
\* the AnnotationList object held by field n of the document at hand
LayerV(n) == [k |-> "layer", v |-> n]
IntV(n) == [k |-> "int", v |-> n]

\* target=None of annotation_field()
NoTarget == "<None>"
FloatV(n) == [k |-> "float", v |-> n]

InSeq(x, s) == \E i \in 1..Len(s) : s[i] = x
Range(s) == {s[i] : i \in 1..Len(s)}

RECURSIVE Perms(_)
Perms(S) ==
    IF S = {} THEN {<<>>}
    ELSE UNION {{<<x>> \o p : p \in Perms(S \ {x})} : x \in S}

(***************************************************************************)
(* Annotation classes                                                      *)
(***************************************************************************)
\* the dataclass fields of every annotation class, without _target
Fields(cls) ==
    CASE cls = "Span" -> <<"start", "end">>
      [] cls = "LabeledSpan" -> <<"start", "end", "label", "score">>
      [] cls = "BinaryRelation" -> <<"head", "tail", "label", "score">>
      [] cls = "Label" -> <<"label", "score">>

Span(start, end) ==
    [cls |-> "Span", start |-> start, end |-> end, label |-> "", score |-> 0,
     head |-> 0, tail |-> 0, _target |-> None]

LabeledSpan(start, end, label) ==
    [cls |-> "LabeledSpan", start |-> start, end |-> end, label |-> label, score |-> 1,
     head |-> 0, tail |-> 0, _target |-> None]

BinaryRelation(head, tail, label) ==
    [cls |-> "BinaryRelation", start |-> 0, end |-> 0, label |-> label, score |-> 1,
     head |-> head, tail |-> tail, _target |-> None]

Label(label) ==
    [cls |-> "Label", start |-> 0, end |-> 0, label |-> label, score |-> 1,
     head |-> 0, tail |-> 0, _target |-> None]

\* the annotation objects the client has created
Pool == 1..7

PoolObj(r) ==
    CASE r = 1 -> Span(1, 2)
      [] r = 2 -> Span(1, 2)
      [] r = 3 -> LabeledSpan(0, 1, "A")
      [] r = 4 -> LabeledSpan(2, 3, "B")
      [] r = 5 -> BinaryRelation(3, 4, "r")
      [] r = 6 -> Label("x")
      [] r = 7 -> BinaryRelation(3, 3, "s")

(***************************************************************************)
(* Document types                                                          *)
(***************************************************************************)
Layer(name, target, cls) == [name |-> name, target |-> target, cls |-> cls]

DocTypes ==
    {"TextDocument", "TestDocument", "PartDocument", "Cyc2", "CycSelf", "CycRooted", "RootClash"}

\* annotation fields of a document type, in declaration order
annotation_fields(T) ==
    CASE T = "TextDocument" -> <<>>
      [] T = "TestDocument" ->
            <<Layer("sentences", "text", "Span"),
              Layer("entities", "text", "LabeledSpan"),
              Layer("relations", "entities", "BinaryRelation"),
              Layer("label", NoTarget, "Label")>>
      [] T = "PartDocument" ->
            <<Layer("entities", "text", "LabeledSpan"),
              Layer("relations", "entities", "BinaryRelation"),
              Layer("partitions", "text", "LabeledSpan")>>
      [] T = "TestDocument1" ->
            <<Layer("sentences", "text", "Span"),
              Layer("entities", "text", "LabeledSpan")>>
      [] T = "TestDocument2" ->
            <<Layer("sentences", "text", "Span"),
              Layer("ents", "text", "LabeledSpan")>>
      [] T = "TestDocument3" ->
            <<Layer("entities", "text", "LabeledSpan"),
              Layer("relations", "entities", "BinaryRelation")>>
      [] T = "TokenBasedDocument" -> <<>>
      [] T = "Cyc2" ->
            <<Layer("a", "b", "Span"), Layer("b", "a", "Span")>>
      [] T = "CycSelf" ->
            <<Layer("a", "a", "Span")>>
      [] T = "CycRooted" ->
            <<Layer("r", "a", "Span"), Layer("a", "a", "Span")>>
      [] T = "RootClash" ->
            <<Layer("_artificial_root", "text", "Span")>>

LayerNames(T) == {annotation_fields(T)[i].name : i \in 1..Len(annotation_fields(T))}

LayerOf(T, n) == CHOOSE f \in Range(annotation_fields(T)) : f.name = n

LayerIndex(T, n) == CHOOSE i \in 1..Len(annotation_fields(T)) : annotation_fields(T)[i].name = n

\* the plain fields of TextDocument, in declaration order
PlainFields == <<"text", "id", "metadata">>

\* the plain fields of a document type, in declaration order
PlainFieldsOf(T) ==
    IF T = "TokenBasedDocument" THEN <<"tokens", "id", "metadata">> ELSE PlainFields

\* the plain fields without a default
RequiredPlain(T) == IF T = "TokenBasedDocument" THEN {"tokens"} ELSE {"text"}

\* keyword arguments the client constructs documents with: TestDocument(text="test1")
\* as in the tests, the plain text document also with an id and metadata
PlainInputs(T) ==
    {[text |-> StrV("test1"), id |-> None, metadata |-> DictV("")]}
    \cup (IF T = "TextDocument"
          THEN {[text |-> StrV("test1"), id |-> StrV("ABC123"), metadata |-> DictV("key=value")]}
          ELSE {})

(***************************************************************************)
(* Document.__post_init__                                                  *)
(***************************************************************************)
Targeted(T) ==
    {annotation_fields(T)[i].target : i \in 1..Len(annotation_fields(T))} \ {NoTarget}

\* self._annotation_fields - targeted
Roots(T) == LayerNames(T) \ Targeted(T)

\* order is the iteration order of the set self._annotation_fields - targeted
post_init(T, plain, order) ==
    LET graph == [n \in {f.name : f \in {g \in Range(annotation_fields(T)) : g.target # NoTarget}}
                    |-> <<LayerOf(T, n).target>>]
    IN  IF "_artificial_root" \in DOMAIN graph
        THEN [type |-> "error", exc |-> "ValueError"]
        ELSE [type |-> T,
              plain |-> plain,
              _annotation_fields |-> LayerNames(T),
              _annotation_graph |->
                  [n \in DOMAIN graph \cup {"_artificial_root"} |->
                      IF n = "_artificial_root" THEN order ELSE graph[n]],
              gold |-> [n \in LayerNames(T) |-> <<>>],
              pred |-> [n \in LayerNames(T) |-> <<>>]]

(***************************************************************************)
(* BaseAnnotationList                                                      *)
(***************************************************************************)
\* getattr(self._document, self._target) if self._target is not None else None
ResolveTarget(d, n) ==
    LET t == LayerOf(d.type, n).target
    IN  IF t = NoTarget THEN None
        ELSE IF t \in LayerNames(d.type) THEN LayerV(t)
        ELSE d.plain[t]

set_target(h, a, value) == [h EXCEPT ![a]._target = value]

\* acc is "annotations" for the layer itself and "predictions" for layer.predictions
ListOf(d, n, acc) == IF acc = "annotations" THEN d.gold[n] ELSE d.pred[n]

WithList(d, n, acc, s) ==
    IF acc = "annotations" THEN [d EXCEPT !.gold[n] = s] ELSE [d EXCEPT !.pred[n] = s]

\* append that stores the annotation without binding its target
append_unbound(w, n, acc, a) ==
    [doc |-> WithList(w.doc, n, acc, Append(ListOf(w.doc, n, acc), a)),
     heap |-> w.heap]

\* the world (document and object heap) after list.append(a)
append(w, n, acc, a) ==
    [doc |-> WithList(w.doc, n, acc, Append(ListOf(w.doc, n, acc), a)),
     heap |-> set_target(w.heap, a, ResolveTarget(w.doc, n))]

RECURSIVE extend(_, _, _, _)
extend(w, n, acc, xs) ==
    IF xs = <<>> THEN w
    ELSE extend(append(w, n, acc, Head(xs)), n, acc, Tail(xs))

RECURSIVE ClearTargets(_, _)
ClearTargets(h, xs) ==
    IF xs = <<>> THEN h
    ELSE ClearTargets(set_target(h, Head(xs), None), Tail(xs))

\* clear that empties the list and leaves the targets as they were
clear_keep_targets(w, n, acc) ==
    [doc |-> WithList(w.doc, n, acc, <<>>),
     heap |-> w.heap]

clear(w, n, acc) ==
    [doc |-> WithList(w.doc, n, acc, <<>>),
     heap |-> ClearTargets(w.heap, ListOf(w.doc, n, acc))]

(***************************************************************************)
(* Annotation.asdict, hash                                                 *)
(***************************************************************************)
\* hash(str): one fixed code per label in use
StrHash(s) ==
    CASE s = "A" -> 65
      [] s = "B" -> 66
      [] s = "r" -> 114
      [] s = "s" -> 115
      [] s = "x" -> 120
      [] OTHER -> 7

\* hash(tuple): a multiplicative mix of the element hashes
RECURSIVE TupleHash(_, _)
TupleHash(xs, acc) ==
    IF xs = <<>> THEN acc
    ELSE TupleHash(Tail(xs), (acc * 31 + Head(xs) + 1) % 1000003)

\* hash(annotation): the dataclass hash, over every field but _target (hash=False)
RECURSIVE Hash(_, _)
Hash(h, a) ==
    LET o == h[a]
        fs == Fields(o.cls)
        fh(f) == CASE f \in {"start", "end", "score"} -> o[f]
                   [] f = "label" -> StrHash(o.label)
                   [] f \in {"head", "tail"} -> Hash(h, o[f])
    IN  TupleHash([i \in 1..Len(fs) |-> fh(fs[i])], Len(fs))

\* dataclasses.asdict(self): nested dataclasses become nested dicts
RECURSIVE dataclasses_asdict(_, _)
dataclasses_asdict(h, a) ==
    LET o == h[a]
    IN  [f \in Range(Fields(o.cls)) \cup {"_target"} |->
            CASE f \in {"start", "end"} -> IntV(o[f])
              [] f = "score" -> FloatV(o.score)
              [] f = "label" -> StrV(o.label)
              [] f \in {"head", "tail"} -> [k |-> "dict", v |-> dataclasses_asdict(h, o[f])]
              [] f = "_target" -> o._target]

Annotation_asdict(h, a) ==
    LET dct == dataclasses_asdict(h, a)
    IN  [f \in (DOMAIN dct \ {"_target"}) \cup {"_id"} |->
            IF f = "_id" THEN IntV(Hash(h, a)) ELSE dct[f]]

\* asdict that replaces head by its id and forgets tail
BinaryRelation_asdict_tail_unresolved(h, a) ==
    [Annotation_asdict(h, a) EXCEPT !["head"] = IntV(Hash(h, h[a].head))]

BinaryRelation_asdict(h, a) ==
    [Annotation_asdict(h, a) EXCEPT !["head"] = IntV(Hash(h, h[a].head)),
                                    !["tail"] = IntV(Hash(h, h[a].tail))]

\* v.asdict(), dispatched on the class of v
asdict(h, a) ==
    IF h[a].cls = "BinaryRelation" THEN BinaryRelation_asdict(h, a) ELSE Annotation_asdict(h, a)

(***************************************************************************)
(* Document.asdict                                                         *)
(***************************************************************************)
Document_asdict(w) ==
    LET d == w.doc
    IN  [f \in Range(PlainFieldsOf(d.type)) \cup LayerNames(d.type) |->
            IF f \in LayerNames(d.type)
            THEN [k |-> "dict",
                  annotations |-> [i \in 1..Len(d.gold[f]) |-> asdict(w.heap, d.gold[f][i])],
                  predictions |-> [i \in 1..Len(d.pred[f]) |-> asdict(w.heap, d.pred[f][i])]]
            ELSE IF d.plain[f].k = "dict"
                 THEN (IF d.plain[f].v = "" THEN None ELSE d.plain[f])
                 ELSE d.plain[f]]

(***************************************************************************)
(* _enumerate_dependencies                                                 *)
(***************************************************************************)
\* a traversal that appends a node before its dependencies
RECURSIVE enumerate_dependencies_preorder(_, _, _, _)
enumerate_dependencies_preorder(resolved, dependency_graph, nodes, current_path) ==
    IF nodes = <<>> THEN [resolved |-> resolved, exc |-> ""]
    ELSE LET node == Head(nodes)
         IN  IF node \in current_path
             THEN [resolved |-> resolved, exc |-> "ValueError"]
             ELSE IF InSeq(node, resolved)
             THEN enumerate_dependencies_preorder(resolved, dependency_graph, Tail(nodes),
                                                  current_path)
             ELSE IF node \notin DOMAIN dependency_graph
             THEN enumerate_dependencies_preorder(Append(resolved, node), dependency_graph,
                                                  Tail(nodes), current_path)
             ELSE LET r == enumerate_dependencies_preorder(Append(resolved, node),
                                                           dependency_graph,
                                                           dependency_graph[node],
                                                           current_path \cup {node})
                  IN  IF r.exc # "" THEN r
                      ELSE enumerate_dependencies_preorder(r.resolved, dependency_graph,
                                                           Tail(nodes), current_path)

RECURSIVE enumerate_dependencies(_, _, _, _)
enumerate_dependencies(resolved, dependency_graph, nodes, current_path) ==
    IF nodes = <<>> THEN [resolved |-> resolved, exc |-> ""]
    ELSE LET node == Head(nodes)
         IN  IF node \in current_path
             THEN [resolved |-> resolved, exc |-> "ValueError"]
             ELSE IF InSeq(node, resolved)
             THEN enumerate_dependencies(resolved, dependency_graph, Tail(nodes), current_path)
             ELSE IF node \notin DOMAIN dependency_graph
             THEN enumerate_dependencies(Append(resolved, node), dependency_graph,
                                         Tail(nodes), current_path)
             ELSE LET r == enumerate_dependencies(resolved, dependency_graph,
                                                  dependency_graph[node],
                                                  current_path \cup {node})
                  IN  IF r.exc # "" THEN r
                      ELSE enumerate_dependencies(Append(r.resolved, node), dependency_graph,
                                                  Tail(nodes), current_path)

(***************************************************************************)
(* Annotation.fromdict, BinaryRelation.fromdict                            *)
(***************************************************************************)
\* an insertion-ordered dict _id -> (field name, annotation), as a sequence of items
DictHas(d, id) == \E i \in 1..Len(d) : d[i].id = id
DictGet(d, id) == d[CHOOSE i \in 1..Len(d) : d[i].id = id]
DictSet(d, id, field, ref) ==
    IF DictHas(d, id)
    THEN [i \in 1..Len(d) |-> IF d[i].id = id THEN [id |-> id, field |-> field, ref |-> ref]
                                               ELSE d[i]]
    ELSE Append(d, [id |-> id, field |-> field, ref |-> ref])

\* {**a, **b}
RECURSIVE DictMerge(_, _)
DictMerge(a, b) ==
    IF b = <<>> THEN a
    ELSE DictMerge(DictSet(a, Head(b).id, Head(b).field, Head(b).ref), Tail(b))

DictKeys(d) == {d[i].id : i \in 1..Len(d)}

\* cls(**dct): the dataclass constructor; score has a default, no other field has
dataclass_new(cls, dct) ==
    IF /\ DOMAIN dct \subseteq Range(Fields(cls))
       /\ Range(Fields(cls)) \ {"score"} \subseteq DOMAIN dct
    THEN [exc |-> "",
          obj |-> [cls |-> cls,
                   start |-> IF "start" \in DOMAIN dct THEN dct["start"].v ELSE 0,
                   end |-> IF "end" \in DOMAIN dct THEN dct["end"].v ELSE 0,
                   label |-> IF "label" \in DOMAIN dct THEN dct["label"].v ELSE "",
                   score |-> IF "score" \in DOMAIN dct THEN dct["score"].v
                             ELSE IF "score" \in Range(Fields(cls)) THEN 1 ELSE 0,
                   head |-> IF "head" \in DOMAIN dct THEN dct["head"].v ELSE 0,
                   tail |-> IF "tail" \in DOMAIN dct THEN dct["tail"].v ELSE 0,
                   _target |-> None]]
    ELSE [exc |-> "TypeError"]

Annotation_fromdict(cls, dct, annotation_store) ==
    dataclass_new(cls, [f \in DOMAIN dct \ {"_id"} |-> dct[f]])

BinaryRelation_fromdict(cls, dct, annotations) ==
    IF dct["head"].k # "int" \/ dct["tail"].k # "int"
    THEN [exc |-> "TypeError"]
    ELSE IF ~DictHas(annotations, dct["head"].v) \/ ~DictHas(annotations, dct["tail"].v)
    THEN [exc |-> "KeyError"]
    ELSE dataclass_new(cls, [dct EXCEPT !["head"] = IntV(DictGet(annotations, dct["head"].v).ref),
                                        !["tail"] = IntV(DictGet(annotations, dct["tail"].v).ref)])

\* annotation_class.fromdict(annotation_dict, store)
class_fromdict(cls, dct, store) ==
    IF cls = "BinaryRelation" THEN BinaryRelation_fromdict(cls, dct, store)
    ELSE Annotation_fromdict(cls, dct, store)

(***************************************************************************)
(* Document.fromdict                                                       *)
(***************************************************************************)
\* cls(**cls_kwargs): text (tokens) is required, id and metadata have defaults
Document_new(T, cls_kwargs, order) ==
    IF ~(RequiredPlain(T) \subseteq DOMAIN cls_kwargs) THEN [type |-> "error", exc |-> "TypeError"]
    ELSE post_init(T,
                   [f \in Range(PlainFieldsOf(T)) |->
                       IF f \in DOMAIN cls_kwargs THEN cls_kwargs[f]
                       ELSE IF f = "metadata" THEN DictV("") ELSE None],
                   order)

\* dct.get(key)
dict_get(dct, key) == IF key \in DOMAIN dct THEN dct[key] ELSE None

\* the identity of the object built for entry i of list acc of the layer at position li
NewRef(acc, li, i) == (IF acc = "annotations" THEN 100 ELSE 200) + 10 * li + i

\* a store that hands a gold annotation the predictions as well
reference_store_union(st, acc) == DictMerge(st.annotations, st.predictions)

\* the store annotation_class.fromdict resolves references in: annotations for the
\* gold entries, {**annotations, **predictions} for the predictions
reference_store(st, acc) ==
    IF acc = "annotations" THEN st.annotations
    ELSE DictMerge(st.annotations, st.predictions)

\* one pass of the loop "build annotations" / "build predictions"
RECURSIVE build(_, _, _, _, _, _)
build(st, T, field_name, acc, entries, i) ==
    IF i > Len(entries) \/ st.exc # "" THEN st
    ELSE LET annotation_dict == [f \in DOMAIN entries[i] \ {"_id"} |-> entries[i][f]]
             annotation_id == entries[i]["_id"].v
             store == reference_store(st, acc)
             r == class_fromdict(LayerOf(T, field_name).cls, annotation_dict, store)
             ref == NewRef(acc, LayerIndex(T, field_name), i)
             seen == [field |-> field_name, acc |-> acc,
                      annotations |-> DictKeys(st.annotations),
                      predictions |-> DictKeys(st.predictions)]
         IN  IF r.exc # "" THEN [st EXCEPT !.exc = r.exc]
             ELSE build([st EXCEPT
                            !.heap = [x \in DOMAIN st.heap \cup {ref} |->
                                         IF x = ref THEN r.obj ELSE st.heap[x]],
                            !.annotations = IF acc = "annotations"
                                            THEN DictSet(@, annotation_id, field_name, ref)
                                            ELSE @,
                            !.predictions = IF acc = "predictions"
                                            THEN DictSet(@, annotation_id, field_name, ref)
                                            ELSE @,
                            !.log = Append(@, seen)],
                        T, field_name, acc, entries, i + 1)

\* the loop over dependency_ordered_fields
RECURSIVE build_fields(_, _, _, _)
build_fields(st, T, dct, ordered) ==
    IF ordered = <<>> \/ st.exc # "" THEN st
    ELSE LET field_name == Head(ordered)
             value == dict_get(dct, field_name)
         IN  IF field_name \notin LayerNames(T) \/ value.k = "none"
             THEN build_fields(st, T, dct, Tail(ordered))
             ELSE build_fields(
                      build(build([st EXCEPT !.built = Append(@, field_name)],
                                  T, field_name, "annotations", value.annotations, 1),
                            T, field_name, "predictions", value.predictions, 1),
                      T, dct, Tail(ordered))

\* getattr(doc, field_name).append(annotation) for every item of the dict
RECURSIVE attach(_, _, _)
attach(w, acc, items) ==
    IF items = <<>> THEN w
    ELSE attach(append(w, Head(items).field, acc, Head(items).ref), acc, Tail(items))

Document_fromdict(T, dct, order) ==
    LET cls_kwargs == [f \in {g \in Range(PlainFieldsOf(T)) : dict_get(dct, g).k # "none"} |-> dct[f]]
        new == Document_new(T, cls_kwargs, order)
    IN  IF new.type = "error" THEN new
        ELSE
        LET deps == enumerate_dependencies(<<>>, new._annotation_graph,
                                           new._annotation_graph["_artificial_root"], {})
        IN  IF deps.exc # "" THEN [type |-> "error", exc |-> deps.exc]
            ELSE
            LET st == build_fields([annotations |-> <<>>, predictions |-> <<>>,
                                    heap |-> <<>>, exc |-> "", log |-> <<>>, built |-> <<>>],
                                   T, dct, deps.resolved)
            IN  IF st.exc # "" THEN [type |-> "error", exc |-> st.exc]
                ELSE
                LET w == attach(attach([doc |-> new, heap |-> st.heap],
                                       "annotations", st.annotations),
                                "predictions", st.predictions)
                IN  [type |-> "ok", doc |-> w.doc, heap |-> w.heap,
                     dependency_ordered_fields |-> deps.resolved,
                     built |-> st.built, log |-> st.log]

(***************************************************************************)
(* Document.as_type, Document.__getitem__                                  *)
(***************************************************************************)
\* the fields of a document type, in the order asdict walks them
FieldOrder(T) ==
    PlainFieldsOf(T) \o [i \in 1..Len(annotation_fields(T)) |-> annotation_fields(T)[i].name]

\* field_mapping.get(k, k)
mapping_get(field_mapping, k) == IF k \in DOMAIN field_mapping THEN field_mapping[k] ELSE k

\* {field_mapping.get(k, k): v for k, v in dct.items()}: a later item replaces an
\* earlier one of the same new name
renamed(dct, keys, field_mapping) ==
    [m \in {mapping_get(field_mapping, keys[i]) : i \in 1..Len(keys)} |->
        LET last == CHOOSE i \in 1..Len(keys) :
                        /\ mapping_get(field_mapping, keys[i]) = m
                        /\ \A j \in (i + 1)..Len(keys) : mapping_get(field_mapping, keys[j]) # m
        IN  dct[keys[last]]]

\* order is the iteration order of the roots of the new document
as_type(w, new_type, field_mapping, order) ==
    Document_fromdict(new_type,
                      renamed(Document_asdict(w), FieldOrder(w.doc.type), field_mapping),
                      order)

\* the dict object the new document holds as metadata: asdict passes the source's
\* own dict on unless it is empty (value or None), and fromdict hands what it gets to
\* the constructor; only without a value does the default_factory make a new dict
metadata_object(w, new_type, field_mapping) ==
    LET dct == renamed(Document_asdict(w), FieldOrder(w.doc.type), field_mapping)
    IN  IF "metadata" \in Range(PlainFieldsOf(new_type)) /\ dict_get(dct, "metadata") # None
        THEN "source" ELSE "new"

\* metadata["seen"] = 1 on a metadata dict
metadata_setitem(value) == DictV(IF value.v = "" THEN "seen=1" ELSE value.v \o ",seen=1")

\* an accessor that hands out every attribute of the document
getitem_any_attribute(d, key) ==
    IF key \notin d._annotation_fields \cup Range(PlainFieldsOf(d.type))
    THEN [exc |-> "KeyError", value |-> StrV("Document has no attribute '" \o key \o "'.")]
    ELSE [exc |-> "", value |-> IF key \in d._annotation_fields THEN LayerV(key) ELSE d.plain[key]]

\* Document.__getitem__
getitem(d, key) ==
    IF key \notin d._annotation_fields
    THEN [exc |-> "KeyError", value |-> StrV("Document has no attribute '" \o key \o "'.")]
    ELSE [exc |-> "", value |-> LayerV(key)]

(***************************************************************************)
(* __eq__ of Annotation, BaseAnnotationList, AnnotationList, Document      *)
(*                                                                         *)
(* same tells whether both sides live in the same document and heap: only  *)
(* then can two references be the same object, which list and tuple        *)
(* comparison accept before they call __eq__.                              *)
(***************************************************************************)
RECURSIVE Annotation_eq(_, _, _, _, _), AnnotationList_eq(_, _, _, _, _),
          list_eq(_, _, _, _, _)

\* self._target == other._target for the _target of two annotations
target_eq(same, w1, t1, w2, t2) ==
    /\ t1.k = t2.k
    /\ \/ t1.k = "none"
       \/ t1.k \in {"str", "dict"} /\ t1.v = t2.v
       \/ t1.k = "layer" /\ (\/ same /\ t1.v = t2.v
                             \/ AnnotationList_eq(same, w1, t1.v, w2, t2.v))

\* the dataclass __eq__ (eq=True): same class and equal tuples of the fields that
\* take part in comparison, which are _target and the payload fields
Annotation_eq(same, w1, a1, w2, a2) ==
    LET o1 == w1.heap[a1]
        o2 == w2.heap[a2]
    IN  /\ o1.cls = o2.cls
        /\ target_eq(same, w1, o1._target, w2, o2._target)
        /\ \A f \in Range(Fields(o1.cls)) :
              IF f \in {"head", "tail"}
              THEN \/ same /\ o1[f] = o2[f]
                   \/ Annotation_eq(same, w1, o1[f], w2, o2[f])
              ELSE o1[f] = o2[f]

\* self._annotations == other._annotations
list_eq(same, w1, s1, w2, s2) ==
    /\ Len(s1) = Len(s2)
    /\ \A i \in 1..Len(s1) :
          \/ same /\ s1[i] = s2[i]
          \/ Annotation_eq(same, w1, s1[i], w2, s2[i])

\* BaseAnnotationList.__eq__ of the layer and of its predictions
AnnotationList_eq(same, w1, n1, w2, n2) ==
    /\ LayerOf(w1.doc.type, n1).target = LayerOf(w2.doc.type, n2).target
    /\ list_eq(same, w1, w1.doc.gold[n1], w2, w2.doc.gold[n2])
    /\ list_eq(same, w1, w1.doc.pred[n1], w2, w2.doc.pred[n2])

\* the dataclass __eq__ of two documents that are different objects
Document_eq(w1, w2) ==
    /\ w1.doc.type = w2.doc.type
    /\ w1.doc._annotation_graph = w2.doc._annotation_graph
    /\ w1.doc._annotation_fields = w2.doc._annotation_fields
    /\ w1.doc.plain = w2.doc.plain
    /\ \A n \in LayerNames(w1.doc.type) : AnnotationList_eq(FALSE, w1, n, w2, n)

(***************************************************************************)
(* State                                                                   *)
(***************************************************************************)
NoDoc == [type |-> "none"]

Accs == {"annotations", "predictions"}

World == [doc |-> doc, heap |-> heap]

Constructed == doc.type \notin {"none"}

\* no call of as_type or __getitem__ made yet
NoCall == [op |-> "none"]

Mutable == Constructed /\ rt = <<>> /\ ret = NoCall

RECURSIVE SumLen(_, _)
SumLen(f, S) ==
    IF S = {} THEN 0
    ELSE LET n == CHOOSE n \in S : TRUE IN Len(f[n]) + SumLen(f, S \ {n})

Entries(d) == SumLen(d.gold, DOMAIN d.gold) + SumLen(d.pred, DOMAIN d.pred)

\* the pool objects the client puts into the layers of a document of type T; object 2,
\* an equal copy of object 1, is only ever compared with it; the partitioned document
\* takes the entity 3 and the relation 7 over it
Appendable(T) == IF T = "PartDocument" THEN {3, 7} ELSE Pool \ {2, 7}

\* appendable objects of the class a layer is declared with
Compatible(T, n) == {a \in Appendable(T) : PoolObj(a).cls = LayerOf(T, n).cls}

\* the layer names of the document, if there is one
Layers == IF Constructed THEN LayerNames(doc.type) ELSE {}

\* the layers of a type whose target chain leads back to themselves
RECURSIVE Follow(_, _, _)
Follow(T, n, k) ==
    IF k = 0 THEN n
    ELSE IF n \notin LayerNames(T) \/ LayerOf(T, n).target = NoTarget THEN NoTarget
    ELSE Follow(T, LayerOf(T, n).target, k - 1)

Cyclic(T) ==
    \E n \in LayerNames(T) : \E k \in 1..Cardinality(LayerNames(T)) : Follow(T, n, k) = n

(***************************************************************************)
(* TaskModule protocol (src/pytorch_ie/taskmodules) and Pipeline           *)
(* (src/pytorch_ie/pipeline.py): encode, collate / forward / unbatch,      *)
(* combine and decode over a list of documents held by object identity.    *)
(***************************************************************************)
Min(a, b) == IF a <= b THEN a ELSE b

\* a Python list where None may stand instead
ListV(s) == [k |-> "list", v |-> s]

\* the documents the client passes, by object identity, in list order
InputDocuments == <<1, 2>>

\* the layers of a task document; the relation task module predicts into "relations"
TaskLayers == {"entities", "relations"}
relation_annotation == "relations"

\* a document with one gold entry per layer and no predictions
NewTaskDocument ==
    [annotations |-> [n \in TaskLayers |-> <<"gold">>],
     predictions |-> [n \in TaskLayers |-> <<>>]]

\* the i-th items of the parallel lists of encode_input and encode_target: the input
\* of the i-th candidate pair, its metadata (head and tail of the pair) and its target
InputEncodingOf(i) == [input_ids |-> i]
MetadataOf(i) == [head |-> <<i>>, tail |-> <<i>>]
TargetOf(i) == IntV(i)

\* TaskEncoding.__init__
TaskEncoding(input, document, target, metadata) ==
    [input |-> input, document |-> document, target |-> target, metadata |-> metadata]

\* zip() of Python stops at the shortest list
ZipLen(lens) == CHOOSE m \in lens : \A l \in lens : m <= l

\* TaskModule.encode with encode_target called whatever the flag says
requested_target_always(target_encoding, encode_target) ==
    [called |-> TRUE, target |-> target_encoding]

\* the target of TaskModule.encode: what encode_target returns, called only when
\* encode_target=True is passed
requested_target(target_encoding, encode_target) ==
    IF encode_target THEN [called |-> TRUE, target |-> target_encoding]
    ELSE [called |-> FALSE, target |-> None]

\* TaskModule.encode without its assertions
encode_unchecked(docs, encode_input, target_encoding, encode_target) ==
    LET input_encoding == encode_input.input_encoding
        metadata == encode_input.metadata
        documents_ == IF encode_input.new_documents # None
                      THEN encode_input.new_documents.v ELSE docs
        requested == requested_target(target_encoding, encode_target)
        target == requested.target
    IN  IF target = None
        THEN [exc |-> "", encode_target_called |-> requested.called,
              value |-> [i \in 1..ZipLen({Len(input_encoding), Len(metadata), Len(documents_)}) |->
                            TaskEncoding(input_encoding[i], documents_[i], None, metadata[i])]]
        ELSE [exc |-> "", encode_target_called |-> requested.called,
              value |-> [i \in 1..ZipLen({Len(input_encoding), Len(metadata), Len(target.v),
                                          Len(documents_)}) |->
                            TaskEncoding(input_encoding[i], documents_[i], target.v[i],
                                         metadata[i])]]

\* TaskModule.encode: encode_input and encode_target are the abstract methods, given
\* here by what they return
encode(docs, encode_input, target_encoding, encode_target) ==
    LET input_encoding == encode_input.input_encoding
        metadata == encode_input.metadata
        documents_ == IF encode_input.new_documents # None
                      THEN encode_input.new_documents.v ELSE docs
        requested == requested_target(target_encoding, encode_target)
        target == requested.target
    IN  IF target = None
        THEN IF ~(Len(input_encoding) = Len(metadata) /\ Len(input_encoding) = Len(documents_))
             THEN [exc |-> "AssertionError", encode_target_called |-> requested.called,
                   value |-> <<>>]
             ELSE [exc |-> "", encode_target_called |-> requested.called,
                   value |-> [i \in 1..ZipLen({Len(input_encoding), Len(metadata),
                                               Len(documents_)}) |->
                                 TaskEncoding(input_encoding[i], documents_[i], None,
                                              metadata[i])]]
        ELSE IF ~(/\ Len(input_encoding) = Len(metadata)
                  /\ Len(input_encoding) = Len(target.v)
                  /\ Len(input_encoding) = Len(documents_))
             THEN [exc |-> "AssertionError", encode_target_called |-> requested.called,
                   value |-> <<>>]
             ELSE [exc |-> "", encode_target_called |-> requested.called,
                   value |-> [i \in 1..ZipLen({Len(input_encoding), Len(metadata),
                                               Len(target.v), Len(documents_)}) |->
                                 TaskEncoding(input_encoding[i], documents_[i], target.v[i],
                                              metadata[i])]]

\* prepare(): label_to_id starts with "no_relation" at id 0; id k is index k + 1 here
id_to_label == <<"no_relation", "per:employee_of">>

\* the rows of logits the model may produce for one encoding, one score per label
LogitRows == {<<2, 1>>, <<1, 2>>}

\* logits.softmax(dim=-1) of one row: entry k is exp(row[k]) / sum of exp over the row,
\* kept as the exponent and the row it is normalised over
softmax(row) == [k \in 1..Len(row) |-> [exp |-> row[k], over |-> row]]

\* np.argmax along the last axis: the first index of the largest entry
argmax(probs) ==
    CHOOSE k \in 1..Len(probs) :
        /\ \A j \in 1..Len(probs) : probs[j].exp <= probs[k].exp
        /\ \A j \in 1..(k - 1) : probs[j].exp < probs[k].exp

\* TransformerRETextClassificationTaskModule.unbatch_output, multi_label=False
unbatch_output(logits) ==
    LET output_label_probs == [b \in 1..Len(logits) |-> softmax(logits[b])]
        label_ids == [b \in 1..Len(logits) |-> argmax(output_label_probs[b])]
        result == [labels |-> [b \in 1..Len(logits) |-> id_to_label[label_ids[b]]],
                   probabilities |-> [b \in 1..Len(logits) |->
                                         output_label_probs[b][label_ids[b]]]]
    IN  <<result>>

\* TransformerTokenClassificationTaskModule.unbatch_output: a row of the batch holds
\* one row of scores per token
token_unbatch_output(logits) ==
    LET probabilities == [b \in 1..Len(logits) |->
                             [j \in 1..Len(logits[b]) |-> softmax(logits[b][j])]]
        indices == [b \in 1..Len(logits) |->
                       [j \in 1..Len(logits[b]) |-> argmax(softmax(logits[b][j]))]]
        tags == [b \in 1..Len(logits) |->
                    [j \in 1..Len(indices[b]) |-> id_to_label[indices[b][j]]]]
    IN  [b \in 1..ZipLen({Len(tags), Len(probabilities)}) |->
            [tags |-> tags[b], probabilities |-> probabilities[b]]]

\* unbatch_output of the given task module class
unbatch_output_of(cls, logits) ==
    IF cls = "TransformerTokenClassificationTaskModule" THEN token_unbatch_output(logits)
    ELSE unbatch_output(logits)

\* the loop of Pipeline.__call__ over the DataLoader: batches of batch_size encodings in
\* list order (shuffle=False), the last one possibly shorter; logits holds the row the
\* model gives for each encoding
RECURSIVE batches(_, _, _)
batches(logits, batch_size, model_outputs) ==
    IF logits = <<>> THEN model_outputs
    ELSE LET n == Min(batch_size, Len(logits))
         IN  batches(SubSeq(logits, n + 1, Len(logits)), batch_size,
                     model_outputs \o unbatch_output(SubSeq(logits, 1, n)))

\* TransformerRETextClassificationTaskModule.create_annotations_from_output: the
\* (layer, annotation) pairs of one output
create_annotations_from_output(output, encoding) ==
    LET heads == encoding.metadata.head
        tails == encoding.metadata.tail
        n == ZipLen({Len(heads), Len(tails), Len(output.labels), Len(output.probabilities)})
        yield[i \in 0..n] ==
            IF i = 0 THEN <<>>
            ELSE IF output.labels[i] # "no_relation"
                 THEN Append(yield[i - 1],
                             <<relation_annotation,
                               [cls |-> "BinaryRelation", head |-> heads[i], tail |-> tails[i],
                                label |-> output.labels[i], score |-> output.probabilities[i]]>>)
                 ELSE yield[i - 1]
    IN  yield[n]

\* predictions[document][annotation_type].append(annotation) for each pair
RECURSIVE add_annotations(_, _, _)
add_annotations(predictions, document, pairs) ==
    IF pairs = <<>> THEN predictions
    ELSE LET annotation_type == pairs[1][1]
             of_doc == predictions[document]
             lst == IF annotation_type \in DOMAIN of_doc THEN of_doc[annotation_type] ELSE <<>>
             of_doc1 == [t \in DOMAIN of_doc \cup {annotation_type} |->
                            IF t = annotation_type THEN Append(lst, pairs[1][2]) ELSE of_doc[t]]
         IN  add_annotations([predictions EXCEPT ![document] = of_doc1], document, Tail(pairs))

EmptyDict == [x \in {} |-> <<>>]

\* TaskModule.combine with the first document of every pair taken for all of them
combine_first_document(encodings_, decoded_outputs_) ==
    LET n == ZipLen({Len(encodings_), Len(decoded_outputs_)})
        predictions[i \in 0..n] ==
            IF i = 0 THEN EmptyDict
            ELSE LET document == encodings_[1].document
                     seen == IF document \in DOMAIN predictions[i - 1] THEN predictions[i - 1]
                             ELSE [d \in DOMAIN predictions[i - 1] \cup {document} |->
                                      IF d = document THEN EmptyDict ELSE predictions[i - 1][d]]
                 IN  add_annotations(seen, document,
                                     create_annotations_from_output(decoded_outputs_[i],
                                                                    encodings_[i]))
    IN  predictions[n]

\* TaskModule.combine: a dict from document to a dict from layer name to the annotations
\* predicted for it, in the order of the encodings
combine(encodings_, decoded_outputs_) ==
    LET n == ZipLen({Len(encodings_), Len(decoded_outputs_)})
        predictions[i \in 0..n] ==
            IF i = 0 THEN EmptyDict
            ELSE LET document == encodings_[i].document
                     seen == IF document \in DOMAIN predictions[i - 1] THEN predictions[i - 1]
                             ELSE [d \in DOMAIN predictions[i - 1] \cup {document} |->
                                      IF d = document THEN EmptyDict ELSE predictions[i - 1][d]]
                 IN  add_annotations(seen, document,
                                     create_annotations_from_output(decoded_outputs_[i],
                                                                    encodings_[i]))
    IN  predictions[n]

\* copy.deepcopy(d) of an input document: a new object
CopyOf(d) == d + Len(InputDocuments)

\* the object that stands for each document in decode; a copy for every one
copied_documents_always(docs, inplace) == [d \in Range(docs) |-> CopyOf(d)]

\* the object that stands for each document in decode: the document itself with
\* inplace=True, a deep copy of it otherwise
copied_documents(docs, inplace) ==
    [d \in Range(docs) |-> IF inplace THEN d ELSE CopyOf(d)]

\* the distinct documents of the encodings, in the order of their first encoding
RECURSIVE documents_of(_, _)
documents_of(encodings_, acc) ==
    IF encodings_ = <<>> THEN acc
    ELSE documents_of(Tail(encodings_),
                      IF InSeq(encodings_[1].document, acc) THEN acc
                      ELSE Append(acc, encodings_[1].document))

\* layer.predictions.append(annotation) for every annotation of predictions, on the
\* document standing for the one it was predicted for
attach_predictions(heap_, predictions, standing) ==
    [o \in DOMAIN heap_ |->
        LET from == {d \in DOMAIN predictions : standing[d] = o}
        IN  IF from = {} THEN heap_[o]
            ELSE LET d == CHOOSE d \in from : TRUE
                 IN  [heap_[o] EXCEPT !.predictions =
                         [n \in TaskLayers |->
                             IF n \in DOMAIN predictions[d]
                             THEN heap_[o].predictions[n] \o predictions[d][n]
                             ELSE heap_[o].predictions[n]]]]

\* decode that attaches the predictions to the documents of the encodings themselves
decode_onto_inputs(heap_, encodings_, decoded_outputs_, input_documents, inplace) ==
    LET docs == IF input_documents = None THEN documents_of(encodings_, <<>>)
                ELSE input_documents.v
        all == Range(docs) \cup {encodings_[i].document : i \in 1..Len(encodings_)}
        standing == [d \in all |->
                        IF d \in Range(docs) THEN copied_documents(docs, inplace)[d] ELSE d]
        copies == {standing[d] : d \in all} \ DOMAIN heap_
        heap1 == [o \in DOMAIN heap_ \cup copies |->
                     IF o \in DOMAIN heap_ THEN heap_[o]
                     ELSE heap_[CHOOSE d \in all : standing[d] = o]]
        predictions == combine(encodings_, decoded_outputs_)
    IN  [documents |-> attach_predictions(heap1, predictions, [d \in all |-> d]),
         value |-> [i \in 1..Len(docs) |-> standing[docs[i]]]]

\* TaskModule.decode(encodings, decoded_outputs, input_documents, inplace): the
\* annotations of combine() are appended to the predictions of their documents, or of
\* deep copies of them; the result lists one document per input document
decode(heap_, encodings_, decoded_outputs_, input_documents, inplace) ==
    LET docs == IF input_documents = None THEN documents_of(encodings_, <<>>)
                ELSE input_documents.v
        all == Range(docs) \cup {encodings_[i].document : i \in 1..Len(encodings_)}
        standing == [d \in all |->
                        IF d \in Range(docs) THEN copied_documents(docs, inplace)[d] ELSE d]
        copies == {standing[d] : d \in all} \ DOMAIN heap_
        heap1 == [o \in DOMAIN heap_ \cup copies |->
                     IF o \in DOMAIN heap_ THEN heap_[o]
                     ELSE heap_[CHOOSE d \in all : standing[d] = o]]
        predictions == combine(encodings_, decoded_outputs_)
    IN  [documents |-> attach_predictions(heap1, predictions, standing),
         value |-> [i \in 1..Len(docs) |-> standing[docs[i]]]]

\* document.clear_predictions(predict_field)
clear_predictions(document, predict_field) ==
    [document EXCEPT !.predictions[predict_field] = <<>>]

\* preprocess that leaves the predictions of the documents alone
preprocess_keep_predictions(heap_, docs, predict_field) == heap_

\* Pipeline.preprocess: the documents with the predictions of predict_field cleared
preprocess(heap_, docs, predict_field) ==
    [o \in DOMAIN heap_ |->
        IF o \in Range(docs) THEN clear_predictions(heap_[o], predict_field) ELSE heap_[o]]

\* Pipeline.__call__(documents, batch_size=batch_size, predict_field=predict_field):
\* preprocess, the batch loop, the length assertion and postprocess
Pipeline_call(heap_, docs, predict_field, encode_input, logits, batch_size) ==
    LET cleared == preprocess(heap_, docs, predict_field)
        encoded == encode(docs, encode_input, None, FALSE)
        model_inputs == encoded.value
        model_outputs == batches(SubSeq(logits, 1, Len(model_inputs)), batch_size, <<>>)
    IN  IF encoded.exc # ""
        THEN [exc |-> encoded.exc, documents |-> cleared, model_inputs |-> <<>>,
              model_outputs |-> <<>>, value |-> <<>>]
        ELSE IF Len(model_inputs) # Len(model_outputs)
        THEN [exc |-> "AssertionError", documents |-> cleared,
              model_inputs |-> model_inputs, model_outputs |-> model_outputs, value |-> <<>>]
        ELSE LET decoded == decode(cleared, model_inputs, model_outputs, None, TRUE)
             IN  [exc |-> "", documents |-> decoded.documents, model_inputs |-> model_inputs,
                  model_outputs |-> model_outputs, value |-> decoded.value]

(***************************************************************************)
(* PreparableMixin (src/src/pytorch_ie/core/module_mixins.py)              *)
(***************************************************************************)
\* no object constructed yet
NoModule == [cls |-> "none"]

\* the attributes a module class lists in PREPARED_ATTRIBUTES
AttributeNames == {"label_to_id", "entity_labels"}

\* a module of a class with the given PREPARED_ATTRIBUTES, none of them set; the
\* counters tell how often the hooks _prepare and _post_prepare have run and how many
\* warnings were logged
NewModule(prepared_attributes) ==
    [cls |-> "PreparableMixin",
     PREPARED_ATTRIBUTES |-> prepared_attributes,
     attributes |-> [a \in AttributeNames |-> None],
     prepare_calls |-> 0,
     prepare_runs |-> 0,
     post_prepare_runs |-> 0,
     warnings |-> 0,
     exc |-> ""]

\* PreparableMixin.is_prepared
is_prepared(m) ==
    \A i \in 1..Len(m.PREPARED_ATTRIBUTES) : m.attributes[m.PREPARED_ATTRIBUTES[i]] # None

\* _prepare(documents) of a subclass: sets the attributes in sets to what it finds in
\* the documents
run_prepare(m, args, sets) ==
    [m EXCEPT !.attributes = [a \in AttributeNames |-> IF a \in sets THEN StrV(args) ELSE @[a]],
              !.prepare_runs = @ + 1]

\* _post_prepare() of a subclass
run_post_prepare(m) == [m EXCEPT !.post_prepare_runs = @ + 1]

\* PreparableMixin.prepare
prepare(m, args, sets) ==
    LET called == [m EXCEPT !.prepare_calls = @ + 1, !.exc = ""]
    IN  IF is_prepared(called)
        THEN run_post_prepare(IF Len(called.PREPARED_ATTRIBUTES) > 0
                              THEN [called EXCEPT !.warnings = @ + 1]
                              ELSE called)
        ELSE LET prepared == run_prepare(called, args, sets)
             IN  IF ~is_prepared(prepared)
                 THEN [prepared EXCEPT !.exc = "Exception"]
                 ELSE run_post_prepare(prepared)

(***************************************************************************)
(* prepare() of the task modules: the label vocabulary                     *)
(***************************************************************************)
\* a Python dict as the list of its items in insertion order
RECURSIVE dict_index(_, _)
dict_index(d, key) ==
    IF d = <<>> THEN 0
    ELSE IF d[Len(d)].key = key THEN Len(d)
    ELSE dict_index(SubSeq(d, 1, Len(d) - 1), key)

\* d[key] = value: a new key goes to the end, a known key keeps its place
dict_setitem(d, key, value) ==
    IF dict_index(d, key) = 0 THEN Append(d, [key |-> key, value |-> value])
    ELSE [d EXCEPT ![dict_index(d, key)].value = value]

\* {v: k for k, v in d.items()}
RECURSIVE dict_inverted(_, _)
dict_inverted(d, acc) ==
    IF d = <<>> THEN acc
    ELSE dict_inverted(Tail(d), dict_setitem(acc, d[1].value, d[1].key))

dict_keys(d) == {d[i].key : i \in 1..Len(d)}
dict_getitem(d, key) == d[dict_index(d, key)].value

\* the task module classes and the label each of them gives id 0
TaskModuleClasses == {"TransformerRETextClassificationTaskModule",
                      "TransformerTokenClassificationTaskModule",
                      "TransformerTextClassificationTaskModule"}
null_label(cls) == IF cls = "TransformerRETextClassificationTaskModule" THEN "no_relation" ELSE "O"

\* __init__ of a task module without label_to_id
NewTaskModule(cls) ==
    [cls |-> cls, label_to_id |-> <<>>, id_to_label |-> <<>>, prepare_calls |-> 0]

\* the labels the annotations of the documents may carry
DocumentLabels(cls) ==
    IF cls = "TransformerRETextClassificationTaskModule"
    THEN {"org:founded_by", "per:employee_of", "no_relation"}
    ELSE IF cls = "TransformerTokenClassificationTaskModule" THEN {"ORG", "PER"}
    ELSE {"neg", "pos", "O"}

\* sorted(labels) of the token classification module
SortedLabels(labels) ==
    (IF "ORG" \in labels THEN <<"ORG">> ELSE <<>>) \o (IF "PER" \in labels THEN <<"PER">> ELSE <<>>)

\* the keys prepare gives the ids 1, 2, ... to, in this order: the labels found in the
\* documents, in the iteration order of the set (any order), without "no_relation" for
\* relations; B-label and I-label of the sorted labels for token classification
LabelKeys(cls, labels) ==
    IF cls = "TransformerRETextClassificationTaskModule" THEN Perms(labels \ {"no_relation"})
    ELSE IF cls = "TransformerTokenClassificationTaskModule"
    THEN LET sorted == SortedLabels(labels)
         IN  {[i \in 1..(2 * Len(sorted)) |->
                  (IF i % 2 = 1 THEN "B-" ELSE "I-") \o sorted[(i + 1) \div 2]]}
    ELSE Perms(labels)

\* self.label_to_id[key] = current_id for the keys in order, current_id from 1
RECURSIVE assign_ids(_, _, _)
assign_ids(label_to_id, keys, current_id) ==
    IF keys = <<>> THEN label_to_id
    ELSE assign_ids(dict_setitem(label_to_id, keys[1], current_id), Tail(keys), current_id + 1)

\* prepare(documents) of the three task modules
taskmodule_prepare(tm, keys) ==
    LET label_to_id == assign_ids(dict_setitem(tm.label_to_id, null_label(tm.cls), 0), keys, 1)
    IN  [tm EXCEPT !.label_to_id = label_to_id,
                   !.id_to_label = dict_inverted(label_to_id, <<>>),
                   !.prepare_calls = @ + 1]

(***************************************************************************)
(* DocumentMetric (src/src/pytorch_ie/core/metric.py)                      *)
(***************************************************************************)
\* reset() of a metric that collects what _update sees
metric_reset(mt) == <<>>

\* _update(document) and _compute() of that metric: the value computed is everything
\* the metric has collected since its last reset
metric_update(mt, document) == Append(mt, document)
metric_compute(mt) == mt

\* compute(reset)
compute(mt, reset) ==
    [metric |-> IF reset THEN metric_reset(mt) ELSE mt, value |-> metric_compute(mt)]

RECURSIVE update_all(_, _)
update_all(mt, docs) ==
    IF docs = <<>> THEN mt ELSE update_all(metric_update(mt, docs[1]), Tail(docs))

\* __call__ with a Document (v holds it) or with an Iterable of documents (v lists them)
metric_call_collection(mt, document_or_collection) ==
    IF document_or_collection.kind = "Document"
    THEN compute(metric_update(mt, document_or_collection.v[1]), FALSE)
    ELSE compute(update_all(mt, document_or_collection.v), FALSE)

\* the loop of __call__ over the items of a dict of splits, without the reset
RECURSIVE metric_call_dict_unreset(_, _, _)
RECURSIVE metric_call_dict(_, _, _)
metric_call_dict_unreset(mt, items, result) ==
    IF items = <<>> THEN [metric |-> mt, value |-> result]
    ELSE LET split_values == metric_call_collection(mt, items[1].value)
         IN  metric_call_dict_unreset(split_values.metric, Tail(items),
                                      dict_setitem(result, items[1].key, split_values.value))

\* the loop of __call__ over the items of a dict of splits
metric_call_dict(mt, items, result) ==
    IF items = <<>> THEN [metric |-> mt, value |-> result]
    ELSE LET split_values == metric_call_collection(metric_reset(mt), items[1].value)
         IN  metric_call_dict(split_values.metric, Tail(items),
                              dict_setitem(result, items[1].key, split_values.value))

\* DocumentMetric.__call__
metric_call(mt, document_or_collection) ==
    IF document_or_collection.kind = "dict"
    THEN metric_call_dict(mt, document_or_collection.v, <<>>)
    ELSE metric_call_collection(mt, document_or_collection)

(***************************************************************************)
(* collate of the task modules                                             *)
(***************************************************************************)
\* the pad token id of the tokenizer and the label_pad_token_id of the module
pad_token_id == 0
label_pad_token_id == 0 - 100

Max(a, b) == IF a >= b THEN a ELSE b

RECURSIVE MaxLen(_)
MaxLen(rows) == IF rows = <<>> THEN 0 ELSE Max(Len(rows[1]), MaxLen(Tail(rows)))

\* a row filled up on the right to the given length
PadRight(row, length, fill) ==
    [j \in 1..length |-> IF j <= Len(row) THEN row[j] ELSE fill]

\* self.tokenizer.pad(input_features, padding=True): every input_ids row filled up to
\* the longest of the batch (padding side right)
tokenizer_pad(input_features) ==
    [i \in 1..Len(input_features) |->
        PadRight(input_features[i].input_ids, MaxLen([k \in 1..Len(input_features) |->
                                                        input_features[k].input_ids]),
                 pad_token_id)]

\* torch.tensor(target_list).flatten() of single-label targets
RECURSIVE flatten(_)
flatten(rows) == IF rows = <<>> THEN <<>> ELSE rows[1] \o flatten(Tail(rows))

\* collate of TransformerTextClassificationTaskModule (multi_label=False) and of
\* TransformerTokenClassificationTaskModule: a None among the targets makes
\* torch.tensor(...) or list(t) raise
collate(cls, encodings_) ==
    LET input_features == [i \in 1..Len(encodings_) |-> encodings_[i].input]
        input_ == tokenizer_pad(input_features)
        target_list == [i \in 1..Len(encodings_) |-> encodings_[i].target]
    IN  IF encodings_[1].target = None
        THEN [exc |-> "", input |-> input_, target |-> None]
        ELSE IF \E i \in 1..Len(target_list) : target_list[i] = None
        THEN [exc |-> "TypeError", input |-> <<>>, target |-> None]
        ELSE IF cls = "TransformerTextClassificationTaskModule"
        THEN [exc |-> "", input |-> input_,
              target |-> ListV(flatten([i \in 1..Len(target_list) |-> target_list[i].v]))]
        ELSE [exc |-> "", input |-> input_,
              target |-> ListV([i \in 1..Len(target_list) |->
                                   PadRight(target_list[i].v, MaxLen(input_),
                                            label_pad_token_id)])]

(***************************************************************************)
(* text_based_document_to_token_based: character spans to token spans      *)
(***************************************************************************)
\* doc.text, as its characters
Text == <<"a", "b", " ", "c", "d">>

\* the character spans a text layer can hold: [start, end) with start < end
CharSpans == {sp \in [start : 0..Len(Text), end : 0..Len(Text)] : sp.start < sp.end}

\* char_to_token built from token_offset_mapping: the dict is filled token by token,
\* so a character lying in several tokens maps to the last of them; token indices
\* count from 0
char_to_token(token_offset_mapping, char_idx) ==
    LET holding == {t \in 1..Len(token_offset_mapping) :
                       /\ token_offset_mapping[t][1] <= char_idx
                       /\ char_idx < token_offset_mapping[t][2]}
    IN  IF holding = {} THEN None
        ELSE IntV((CHOOSE t \in holding : \A u \in holding : u <= t) - 1)

\* the loop over doc[text_span_layer_name]: override_annotations and
\* removed_annotations, the warnings logged, and the ValueError of the strict mode
RECURSIVE convert_spans(_, _, _, _)
convert_spans(char_spans, token_offset_mapping, strict_span_conversion, acc) ==
    IF char_spans = <<>> THEN acc
    ELSE LET char_span == char_spans[1]
             start_token_idx == char_to_token(token_offset_mapping, char_span.start)
             end_token_idx_inclusive == char_to_token(token_offset_mapping, char_span.end - 1)
         IN  IF start_token_idx = None \/ end_token_idx_inclusive = None
             THEN IF strict_span_conversion
                  THEN [acc EXCEPT !.exc = "ValueError"]
                  ELSE convert_spans(Tail(char_spans), token_offset_mapping,
                                     strict_span_conversion,
                                     [acc EXCEPT !.warnings = @ + 1,
                                                 !.removed = @ \cup {char_span}])
             ELSE convert_spans(Tail(char_spans), token_offset_mapping,
                                strict_span_conversion,
                                [acc EXCEPT !.override = @ \cup
                                    {[source |-> char_span,
                                      token_span |-> [start |-> start_token_idx.v,
                                                      end |-> end_token_idx_inclusive.v + 1]]}])

\* text_based_document_to_token_based of a document with one span layer on the text;
\* the layer of the result holds the set of the token spans
text_based_document_to_token_based(char_spans, token_offset_mapping, strict_span_conversion) ==
    LET converted == convert_spans(char_spans, token_offset_mapping, strict_span_conversion,
                                   [exc |-> "", warnings |-> 0, removed |-> {},
                                    override |-> {}])
    IN  [exc |-> converted.exc, warnings |-> converted.warnings,
         removed |-> converted.removed, override |-> converted.override,
         spans |-> IF converted.exc # "" THEN {}
                   ELSE {o.token_span : o \in converted.override}]

Init ==
    /\ doc = NoDoc
    /\ heap = [r \in Pool |-> PoolObj(r)]
    /\ exc = ""
    /\ rt = <<>>
    /\ ret = NoCall
    /\ documents = [o \in Range(InputDocuments) |-> NewTaskDocument]
    /\ encodings = <<>>
    /\ decoded_outputs = <<>>
    /\ call = NoCall
    /\ module = NoModule
    /\ taskmodule = NoModule
    /\ metric = metric_reset(<<>>)

\* T(**plain): dataclass __init__ followed by __post_init__
Construct(T, plain, order) ==
    /\ doc = NoDoc
    /\ LET d == post_init(T, plain, order)
       IN  IF d.type = "error"
           THEN /\ exc' = d.exc
                /\ UNCHANGED doc
           ELSE /\ doc' = d
                /\ exc' = ""
    /\ UNCHANGED <<heap, rt, ret, taskvars, modvars>>

DoAppend(n, acc, a) ==
    /\ Mutable
    /\ Entries(doc) + 1 <= MaxEntries
    /\ LET w == append(World, n, acc, a)
       IN  /\ doc' = w.doc
           /\ heap' = w.heap
    /\ UNCHANGED <<exc, rt, ret, taskvars, modvars>>

DoExtend(n, acc, xs) ==
    /\ Mutable
    /\ Entries(doc) + Len(xs) <= MaxEntries
    /\ LET w == extend(World, n, acc, xs)
       IN  /\ doc' = w.doc
           /\ heap' = w.heap
    /\ UNCHANGED <<exc, rt, ret, taskvars, modvars>>

DoClear(n, acc) ==
    /\ Mutable
    /\ LET w == clear(World, n, acc)
       IN  /\ doc' = w.doc
           /\ heap' = w.heap
    /\ UNCHANGED <<exc, rt, ret, taskvars, modvars>>

\* the world of a successful fromdict
ResultWorld(r) == [doc |-> r.doc, heap |-> r.heap]

\* type(doc).fromdict(doc.asdict())
FromDict ==
    /\ Mutable
    /\ rt' = <<Document_fromdict(doc.type, Document_asdict(World),
                                 doc._annotation_graph["_artificial_root"])>>
    /\ UNCHANGED <<doc, heap, exc, ret, taskvars, modvars>>

\* the same once more, on the document the first call returned
FromDictAgain ==
    /\ Len(rt) = 1
    /\ rt[1].type = "ok"
    /\ rt' = Append(rt, Document_fromdict(doc.type, Document_asdict(ResultWorld(rt[1])),
                                          doc._annotation_graph["_artificial_root"]))
    /\ UNCHANGED <<doc, heap, exc, ret, taskvars, modvars>>

\* the client constructs the document
ConstructDocument ==
    \E T \in DocTypes : \E plain \in PlainInputs(T), order \in Perms(Roots(T)) :
        Construct(T, plain, order)

\* layer.append(a) or layer.predictions.append(a)
Append1 ==
    \E n \in Layers, acc \in Accs : \E a \in Compatible(doc.type, n) : DoAppend(n, acc, a)

\* layer.extend([a, b]) or layer.predictions.extend([a, b])
Extend2 ==
    \E n \in Layers, acc \in Accs :
        \E a, b \in Compatible(doc.type, n) : DoExtend(n, acc, <<a, b>>)

\* layer.clear() or layer.predictions.clear()
Clear ==
    \E n \in Layers, acc \in Accs : DoClear(n, acc)

Next ==
    \/ ConstructDocument
    \/ Append1
    \/ Extend2
    \/ Clear
    \/ FromDict
    \/ FromDictAgain

Spec == Init /\ [][Next]_vars

(***************************************************************************)
(* Conversion and access: the documents of test_as_type                    *)
(***************************************************************************)
\* the document types the client converts from and to
SourceTypes == {"TestDocument1", "TestDocument3"}
NewTypes == {"TestDocument2", "TestDocument3", "TokenBasedDocument"}

\* the field mappings the client passes: none, and entities to ents
FieldMappings == {[k \in {} |-> ""], [k \in {"entities"} |-> "ents"]}

\* the names the client subscripts a document with
Keys == {"sentences", "entities", "relations", "ents", "text", "non_existing_annotation"}

ConstructSource ==
    \E T \in SourceTypes : \E plain \in PlainInputs(T), order \in Perms(Roots(T)) :
        Construct(T, plain, order)

\* doc.as_type(new_type, field_mapping)
DoAsType(new_type, field_mapping, order) ==
    /\ Mutable
    /\ ret' = [op |-> "as_type", new_type |-> new_type, field_mapping |-> field_mapping,
               metadata_object |-> metadata_object(World, new_type, field_mapping),
               result |-> as_type(World, new_type, field_mapping, order)]
    /\ UNCHANGED <<doc, heap, exc, rt, taskvars, modvars>>

AsType ==
    \E new_type \in NewTypes, field_mapping \in FieldMappings :
        \E order \in Perms(Roots(new_type)) : DoAsType(new_type, field_mapping, order)

\* doc[key]
DoGetItem(key) ==
    /\ Mutable
    /\ ret' = [op |-> "getitem", key |-> key, result |-> getitem(doc, key)]
    /\ UNCHANGED <<doc, heap, exc, rt, taskvars, modvars>>

GetItem == \E key \in Keys : DoGetItem(key)

NextConvert ==
    \/ ConstructSource
    \/ Append1
    \/ Extend2
    \/ Clear
    \/ AsType
    \/ GetItem

SpecConvert == Init /\ [][NextConvert]_vars

(***************************************************************************)
(* The task module at work: encode, forward in batches, decode, and the    *)
(* pipeline that does all three                                            *)
(***************************************************************************)
Lens == 0..MaxEncodings

\* what encode_input may return: parallel lists of any lengths, the documents of the
\* encodings (any input document any number of times) or None
DocumentLists == UNION {[1..n -> Range(InputDocuments)] : n \in Lens}
EncodeInputResults ==
    {[input_encoding |-> [i \in 1..a |-> InputEncodingOf(i)],
      metadata |-> [i \in 1..b |-> MetadataOf(i)],
      new_documents |-> nd] :
        a \in Lens, b \in Lens, nd \in {None} \cup {ListV(l) : l \in DocumentLists}}

\* what encode_target may return
EncodeTargetResults == {None} \cup {ListV([i \in 1..n |-> TargetOf(i)]) : n \in Lens}

\* what the encode_input of the relation task module returns: one input, one metadata
\* and one document per candidate pair
PairLists ==
    {r \in EncodeInputResults :
        /\ r.new_documents # None
        /\ Len(r.input_encoding) = Len(r.new_documents.v)
        /\ Len(r.metadata) = Len(r.new_documents.v)}

BatchSizes == 1..MaxEncodings

\* the input documents as they are now
Live == [o \in Range(InputDocuments) |-> documents[o]]

\* a relation predicted by an earlier run
EarlierPrediction ==
    [cls |-> "BinaryRelation", head |-> 0, tail |-> 0, label |-> "per:employee_of",
     score |-> softmax(<<1, 2>>)[2]]

\* an earlier run has left a prediction on document d
DoPredicted(d) ==
    /\ call = NoCall
    /\ documents[d].predictions[relation_annotation] = <<>>
    /\ documents' = [documents EXCEPT ![d].predictions[relation_annotation] =
                                          <<EarlierPrediction>>]
    /\ UNCHANGED <<encodings, decoded_outputs, call, docvars, modvars>>

Predicted == \E d \in Range(InputDocuments) : DoPredicted(d)

\* encodings = taskmodule.encode(documents, encode_target)
DoEncode(encode_input, target_encoding, encode_target) ==
    /\ call = NoCall
    /\ LET result == encode(InputDocuments, encode_input, target_encoding, encode_target)
       IN  /\ encodings' = result.value
           /\ call' = [op |-> "encode", encode_input |-> encode_input,
                       target_encoding |-> target_encoding, encode_target |-> encode_target,
                       result |-> result]
    /\ UNCHANGED <<documents, decoded_outputs, docvars, modvars>>

\* any task module, whatever its encode_input and encode_target return
Encode ==
    \E encode_input \in EncodeInputResults, encode_target \in BOOLEAN :
        \E target_encoding \in EncodeTargetResults :
            DoEncode(encode_input, target_encoding, encode_target)

\* the relation task module, for prediction
EncodePairs ==
    \E encode_input \in PairLists : DoEncode(encode_input, None, FALSE)

\* the encodings go through collate, the model and unbatch_output, batch by batch
DoForward(logits, batch_size) ==
    /\ call.op = "encode"
    /\ encodings # <<>>
    /\ Len(logits) = Len(encodings)
    /\ decoded_outputs' = batches(logits, batch_size, <<>>)
    /\ call' = [op |-> "forward", logits |-> logits, batch_size |-> batch_size]
    /\ UNCHANGED <<documents, encodings, docvars, modvars>>

Forward ==
    \E logits \in [1..Len(encodings) -> LogitRows], batch_size \in BatchSizes :
        DoForward(logits, batch_size)

\* taskmodule.decode(encodings, decoded_outputs, input_documents=documents, inplace)
DoDecode(inplace) ==
    /\ call.op = "forward"
    /\ LET result == decode(Live, encodings, decoded_outputs, ListV(InputDocuments), inplace)
       IN  /\ documents' = result.documents
           /\ call' = [op |-> "decode", inplace |-> inplace, before |-> Live,
                       result |-> result.value]
    /\ UNCHANGED <<encodings, decoded_outputs, docvars, modvars>>

Decode == \E inplace \in BOOLEAN : DoDecode(inplace)

\* pipeline(documents, batch_size=batch_size, predict_field="relations")
DoCall(encode_input, logits, batch_size) ==
    /\ call = NoCall
    /\ Len(logits) = Len(encode(InputDocuments, encode_input, None, FALSE).value)
    /\ LET result == Pipeline_call(Live, InputDocuments, relation_annotation, encode_input,
                                   logits, batch_size)
       IN  /\ documents' = result.documents
           /\ call' = [op |-> "pipeline", batch_size |-> batch_size, before |-> Live,
                       encode_input |-> encode_input, again |-> FALSE,
                       logits |-> logits, result |-> result]
    /\ UNCHANGED <<encodings, decoded_outputs, docvars, modvars>>

Call ==
    \E encode_input \in PairLists, batch_size \in BatchSizes :
        \E logits \in UNION {[1..n -> LogitRows] : n \in Lens} :
            DoCall(encode_input, logits, batch_size)

\* the same pipeline call once more, on the documents the first call returned
CallAgain ==
    /\ call.op = "pipeline"
    /\ ~call.again
    /\ call.result.exc = ""
    /\ LET result == Pipeline_call(Live, InputDocuments, relation_annotation,
                                   call.encode_input, call.logits, call.batch_size)
       IN  /\ documents' = result.documents
           /\ call' = [call EXCEPT !.again = TRUE, !.before = Live, !.result = result]
    /\ UNCHANGED <<encodings, decoded_outputs, docvars, modvars>>

NextTask ==
    \/ Predicted
    \/ EncodePairs
    \/ Forward
    \/ Decode
    \/ Call
    \/ CallAgain

SpecTask == Init /\ [][NextTask]_vars

\* TaskModule.encode on its own, for every outcome of the abstract methods
SpecEncode == Init /\ [][Encode]_vars

(***************************************************************************)
(* Preparing modules                                                       *)
(***************************************************************************)
\* the PREPARED_ATTRIBUTES of the module classes at hand
AttributeLists == {<<>>, <<"label_to_id">>, <<"label_to_id", "entity_labels">>}

\* the document collections prepare is called with
PrepareArgs == {"train", "validation"}

ConstructModule ==
    /\ module = NoModule
    /\ \E prepared_attributes \in AttributeLists : module' = NewModule(prepared_attributes)
    /\ UNCHANGED <<taskmodule, metric, docvars, taskvars>>

\* module.prepare(documents), _prepare setting the attributes in sets
DoPrepare(args, sets) ==
    /\ module # NoModule
    /\ module.prepare_calls < MaxPrepare
    /\ module' = prepare(module, args, sets)
    /\ UNCHANGED <<taskmodule, metric, docvars, taskvars>>

Prepare ==
    /\ module # NoModule
    /\ \E args \in PrepareArgs : \E sets \in SUBSET Range(module.PREPARED_ATTRIBUTES) :
           DoPrepare(args, sets)

ConstructTaskModule ==
    /\ taskmodule = NoModule
    /\ \E cls \in TaskModuleClasses : taskmodule' = NewTaskModule(cls)
    /\ UNCHANGED <<module, metric, docvars, taskvars>>

\* taskmodule.prepare(documents), the documents carrying the given labels
DoTaskPrepare(keys) ==
    /\ taskmodule # NoModule
    /\ taskmodule.prepare_calls < MaxPrepare
    /\ taskmodule' = taskmodule_prepare(taskmodule, keys)
    /\ UNCHANGED <<module, metric, docvars, taskvars>>

TaskPrepare ==
    /\ taskmodule # NoModule
    /\ \E labels \in SUBSET DocumentLabels(taskmodule.cls) :
           \E keys \in LabelKeys(taskmodule.cls, labels) : DoTaskPrepare(keys)

NextPrepare ==
    \/ ConstructModule
    \/ Prepare
    \/ ConstructTaskModule
    \/ TaskPrepare

SpecPrepare == Init /\ [][NextPrepare]_vars

(***************************************************************************)
(* Batching: collate of encodings, unbatch_output of model outputs         *)
(***************************************************************************)
CollateClasses == {"TransformerTextClassificationTaskModule",
                   "TransformerTokenClassificationTaskModule"}

\* the inputs of the encodings to collate
TokenIds == {<<7>>, <<7, 8>>}

\* the targets of an encoding with the given input: none, or one label id for the
\* text, or one label id per token
TargetsFor(cls, input_ids) ==
    {None} \cup
        IF cls = "TransformerTextClassificationTaskModule" THEN {ListV(<<0>>), ListV(<<1>>)}
        ELSE {ListV([j \in 1..Len(input_ids) |-> l]) : l \in {1, 2}}

CollateEncodings(cls) ==
    {TaskEncoding([input_ids |-> ids], 1, target, MetadataOf(1)) :
        <<ids, target>> \in {q \in TokenIds \X (UNION {TargetsFor(cls, x) : x \in TokenIds}) :
                                q[2] \in TargetsFor(cls, q[1])}}

\* taskmodule.collate(encodings) for a list of one or more encodings
DoCollate(cls, encodings_) ==
    /\ call = NoCall
    /\ call' = [op |-> "collate", cls |-> cls, encodings |-> encodings_,
                result |-> collate(cls, encodings_)]
    /\ UNCHANGED <<documents, encodings, decoded_outputs, docvars, modvars>>

Collate ==
    \E cls \in CollateClasses : \E n \in 1..MaxEncodings :
        \E encodings_ \in [1..n -> CollateEncodings(cls)] : DoCollate(cls, encodings_)

\* the rows of a batched model output: one row of scores per encoding, or for the
\* token classification one row of scores for each of two tokens
OutputRows(cls) ==
    IF cls = "TransformerTokenClassificationTaskModule" THEN [1..2 -> LogitRows]
    ELSE LogitRows

\* taskmodule.unbatch_output(output) for a batch of one or more rows
DoUnbatch(cls, logits) ==
    /\ call = NoCall
    /\ call' = [op |-> "unbatch", cls |-> cls, logits |-> logits,
                result |-> unbatch_output_of(cls, logits)]
    /\ UNCHANGED <<documents, encodings, decoded_outputs, docvars, modvars>>

Unbatch ==
    \E cls \in TaskModuleClasses : \E n \in 1..MaxEncodings :
        \E logits \in [1..n -> OutputRows(cls)] : DoUnbatch(cls, logits)

NextBatch ==
    \/ Collate
    \/ Unbatch

SpecBatch == Init /\ [][NextBatch]_vars

(***************************************************************************)
(* Conversion of a text-based document                                     *)
(***************************************************************************)
\* tokenizations of Text as offset mappings: words only, and words between the
\* special tokens of a transformer tokenizer, which cover no character
TokenOffsetMappings ==
    {<< <<0, 2>>, <<3, 5>> >>,
     << <<0, 0>>, <<0, 1>>, <<1, 2>>, <<3, 5>>, <<0, 0>> >>}

DoConvert(char_spans, token_offset_mapping, strict_span_conversion) ==
    /\ call = NoCall
    /\ call' = [op |-> "convert", spans |-> char_spans,
                token_offset_mapping |-> token_offset_mapping,
                strict_span_conversion |-> strict_span_conversion,
                result |-> text_based_document_to_token_based(
                               char_spans, token_offset_mapping, strict_span_conversion)]
    /\ UNCHANGED <<documents, encodings, decoded_outputs, docvars, modvars>>

Convert ==
    \E n \in 1..MaxEncodings : \E char_spans \in [1..n -> CharSpans] :
        \E token_offset_mapping \in TokenOffsetMappings :
            \E strict_span_conversion \in BOOLEAN :
                DoConvert(char_spans, token_offset_mapping, strict_span_conversion)

SpecConversion == Init /\ [][Convert]_vars

(***************************************************************************)
(* DocumentMetric: updates, resets and calls on a dictionary of splits     *)
(***************************************************************************)
SplitNames == {"train", "test"}

\* a split: one Document or a list of documents
Splits ==
    {[kind |-> "Document", v |-> <<d>>] : d \in Range(InputDocuments)} \cup
    {[kind |-> "Iterable", v |-> docs] :
        docs \in UNION {[1..n -> Range(InputDocuments)] : n \in 0..MaxEncodings}}

\* the dicts of splits, as their items in insertion order
SplitDicts ==
    {<<>>} \cup
    {<<[key |-> k, value |-> s]>> : k \in SplitNames, s \in Splits} \cup
    {<<[key |-> k1, value |-> s1], [key |-> k2, value |-> s2]>> :
        <<k1, k2, s1, s2>> \in {q \in SplitNames \X SplitNames \X Splits \X Splits :
                                   q[1] # q[2]}}

\* metric(document): one more document for the running metric
MetricUpdate ==
    \E d \in Range(InputDocuments) :
        /\ Len(metric) < MaxEncodings
        /\ LET returned == metric_call(metric, [kind |-> "Document", v |-> <<d>>])
           IN  /\ metric' = returned.metric
               /\ call' = [op |-> "metric_update", before |-> metric,
                           result |-> returned.value]
        /\ UNCHANGED <<documents, encodings, decoded_outputs, module, taskmodule, docvars>>

\* metric.compute(): the value, and the reset that follows by default
MetricCompute ==
    /\ metric # <<>>
    /\ LET returned == compute(metric, TRUE)
       IN  /\ metric' = returned.metric
           /\ call' = [op |-> "metric_compute", before |-> metric, result |-> returned.value]
    /\ UNCHANGED <<documents, encodings, decoded_outputs, module, taskmodule, docvars>>

\* metric({split_name: split, ...})
MetricCallSplits ==
    \E splits \in SplitDicts :
        LET returned == metric_call(metric, [kind |-> "dict", v |-> splits])
        IN  /\ metric' = returned.metric
            /\ call' = [op |-> "metric_splits", before |-> metric, splits |-> splits,
                        result |-> returned.value]
            /\ UNCHANGED <<documents, encodings, decoded_outputs, module, taskmodule,
                           docvars>>

NextMetric ==
    \/ MetricUpdate
    \/ MetricCompute
    \/ MetricCallSplits

SpecMetric == Init /\ [][NextMetric]_vars

(***************************************************************************)
(* The source and the document as_type returned, both in use afterwards    *)
(***************************************************************************)
\* the source documents: without and with an id and metadata
ConstructSourceWithMetadata ==
    \E T \in SourceTypes : \E plain \in PlainInputs("TextDocument"), order \in Perms(Roots(T)) :
        Construct(T, plain, order)

AsTypeDone == ret.op = "as_type" /\ ret.result.type = "ok"

\* the metadata values no item has been added to yet
FreshMetadata == {DictV(""), DictV("key=value")}

\* new_doc.metadata["seen"] = 1 or doc.metadata["seen"] = 1: the dict object is changed,
\* and with it every document that holds this object
DoSetMetadata(side) ==
    /\ AsTypeDone
    /\ LET held == IF side = "result" THEN ret.result.doc.plain.metadata
                   ELSE doc.plain.metadata
           shared == ret.metadata_object = "source"
       IN  /\ held \in FreshMetadata
           /\ ret' = IF side = "result" \/ shared
                     THEN [ret EXCEPT !.result.doc.plain.metadata = metadata_setitem(held)]
                     ELSE ret
           /\ doc' = IF side = "source" \/ shared
                     THEN [doc EXCEPT !.plain.metadata = metadata_setitem(held)]
                     ELSE doc
    /\ UNCHANGED <<heap, exc, rt, taskvars, modvars>>

SetMetadata == \E side \in {"source", "result"} : DoSetMetadata(side)

\* new_doc[n].clear() or new_doc[n].predictions.clear()
DoResultClear(n, acc) ==
    /\ AsTypeDone
    /\ n \in LayerNames(ret.new_type)
    /\ ListOf(ret.result.doc, n, acc) # <<>>
    /\ LET w == clear(ResultWorld(ret.result), n, acc)
       IN  ret' = [ret EXCEPT !.result.doc = w.doc, !.result.heap = w.heap]
    /\ UNCHANGED <<doc, heap, exc, rt, taskvars, modvars>>

ResultClear ==
    \E n \in {"sentences", "entities", "relations", "ents"}, acc \in Accs : DoResultClear(n, acc)

\* new_doc[n].predictions.append(a) for an annotation a of new_doc[n]
DoResultAppend(n, a) ==
    /\ AsTypeDone
    /\ n \in LayerNames(ret.new_type)
    /\ a \in Range(ListOf(ret.result.doc, n, "annotations"))
    /\ ListOf(ret.result.doc, n, "predictions") = <<>>
    /\ LET w == append(ResultWorld(ret.result), n, "predictions", a)
       IN  ret' = [ret EXCEPT !.result.doc = w.doc, !.result.heap = w.heap]
    /\ UNCHANGED <<doc, heap, exc, rt, taskvars, modvars>>

ResultAppend ==
    /\ AsTypeDone
    /\ \E n \in {"sentences", "entities", "relations", "ents"} :
           \E a \in DOMAIN ret.result.heap : DoResultAppend(n, a)

\* doc[n].clear() or doc[n].predictions.clear() after the conversion
DoSourceClear(n, acc) ==
    /\ AsTypeDone
    /\ ListOf(doc, n, acc) # <<>>
    /\ LET w == clear(World, n, acc)
       IN  /\ doc' = w.doc
           /\ heap' = w.heap
    /\ UNCHANGED <<ret, exc, rt, taskvars, modvars>>

SourceClear == \E n \in Layers, acc \in Accs : DoSourceClear(n, acc)

NextShare ==
    \/ ConstructSourceWithMetadata
    \/ Append1
    \/ AsType
    \/ SetMetadata
    \/ ResultClear
    \/ ResultAppend
    \/ SourceClear

SpecShare == Init /\ [][NextShare]_vars

(***************************************************************************)
(* Properties                                                              *)
(***************************************************************************)
\* the annotations held by some list of the document
Attached(d) == UNION {Range(d.gold[n]) \cup Range(d.pred[n]) : n \in DOMAIN d.gold}

\* every relation held by the document references annotations held by the document
Intact ==
    \A a \in Attached(doc) :
        heap[a].cls = "BinaryRelation" =>
            heap[a].head \in Attached(doc) /\ heap[a].tail \in Attached(doc)

\* the mapping the i-th call of fromdict was given
InputOf(i) ==
    IF i = 1 THEN Document_asdict(World) ELSE Document_asdict(ResultWorld(rt[1]))

\* C1: for every document of an acyclic type whose relations reference attached
\* annotations, Type.fromdict(d.asdict()) returns a document equal to d.
C1_RoundTrip ==
    (Len(rt) >= 1 /\ ~Cyclic(doc.type) /\ Intact) =>
        (rt[1].type = "ok" /\ Document_eq(ResultWorld(rt[1]), World))

\* C2: no document of a type whose layer targets form a cycle is ever constructed.
C2_CyclicTypeRejected == Constructed => ~Cyclic(doc.type)

\* C3: fromdict on a type whose layer graph has a cycle raises the configuration
\* error (ValueError), whatever the mapping and wherever the cycle sits.
C3_FromDictRejectsCycle ==
    (Len(rt) >= 1 /\ Cyclic(doc.type)) => (rt[1].type = "error" /\ rt[1].exc = "ValueError")

\* C4: fromdict reconstructs no layer twice, reconstructs every layer after the layer
\* it targets, and resolves every entry of a layer that targets a layer only when
\* all gold entries and all predictions of the targeted layer are in the accumulators.
C4_DependencyOrder ==
    \A i \in 1..Len(rt) :
        rt[i].type = "ok" =>
            LET r == rt[i]
                T == r.doc.type
                dct == InputOf(i)
                ids(entries) == {entries[j]["_id"].v : j \in 1..Len(entries)}
            IN  /\ \A j, k \in 1..Len(r.built) : j # k => r.built[j] # r.built[k]
                /\ \A j \in 1..Len(r.built) :
                       LayerOf(T, r.built[j]).target \in LayerNames(T) =>
                           \E k \in 1..(j - 1) : r.built[k] = LayerOf(T, r.built[j]).target
                /\ \A j \in 1..Len(r.log) :
                       LET t == LayerOf(T, r.log[j].field).target
                       IN  t \in LayerNames(T) =>
                               /\ ids(dct[t].annotations) \subseteq r.log[j].annotations
                               /\ ids(dct[t].predictions) \subseteq r.log[j].predictions

\* a relation was resolved while the entities were in the accumulator
C4_Witness ==
    /\ Len(rt) >= 1
    /\ rt[1].type = "ok"
    /\ \E j \in 1..Len(rt[1].log) :
           rt[1].log[j].field = "relations" /\ rt[1].log[j].annotations # {}

\* C5: every relation held by a layer references only annotations held by some
\* layer of the same document.
C5_ReferencesAttached == Constructed => Intact

\* C6: two annotations of the same class with identical field values are equal and
\* have the same hash, whether or not they are attached to a layer.
C6_EqualityIgnoresTarget ==
    \A a, b \in Pool :
        PoolObj(a) = PoolObj(b) =>
            /\ Annotation_eq(TRUE, World, a, World, b)
            /\ Hash(heap, a) = Hash(heap, b)

\* the value of the document field a layer is declared to target
ExpectedTarget(d, n) ==
    LET t == LayerOf(d.type, n).target
    IN  IF t = NoTarget THEN None
        ELSE IF t \in LayerNames(d.type) THEN LayerV(t)
        ELSE IF t = "text" THEN d.plain.text
        ELSE None

\* C7: append(a) on a list of a layer puts a at the end of that list and sets
\* a.target to the value of the field the layer targets (None if untargeted);
\* extend does so for every element, in iteration order.
C7_AppendBindsTarget ==
    [][\A n \in Layers, acc \in Accs :
          /\ \A a \in Compatible(doc.type, n) :
                DoAppend(n, acc, a) =>
                    /\ ListOf(doc', n, acc) = Append(ListOf(doc, n, acc), a)
                    /\ heap'[a]._target = ExpectedTarget(doc, n)
          /\ \A a, b \in Compatible(doc.type, n) :
                DoExtend(n, acc, <<a, b>>) =>
                    /\ ListOf(doc', n, acc) = ListOf(doc, n, acc) \o <<a, b>>
                    /\ heap'[a]._target = ExpectedTarget(doc, n)
                    /\ heap'[b]._target = ExpectedTarget(doc, n)]_vars

\* annotations bound to the text, to a layer and to nothing
C7_Witness ==
    /\ Constructed
    /\ doc.type = "TestDocument"
    /\ doc.gold["label"] = <<6>> /\ heap[6]._target = None
    /\ doc.pred["entities"] = <<3>> /\ heap[3]._target = StrV("test1")
    /\ doc.gold["relations"] = <<5>> /\ heap[5]._target = LayerV("entities")

\* C8: clear() on a gold list or a predictions list leaves the list empty and the
\* target of every annotation that was in it None.
C8_ClearResetsTarget ==
    [][\A n \in Layers, acc \in Accs :
          DoClear(n, acc) =>
              /\ ListOf(doc', n, acc) = <<>>
              /\ \A a \in Range(ListOf(doc, n, acc)) : heap'[a]._target = None]_vars

\* an annotation that lost its target to the clear() of the predictions
C8_Witness ==
    /\ Constructed
    /\ doc.type = "TestDocument"
    /\ doc.gold["sentences"] = <<1>>
    /\ doc.pred["sentences"] = <<>>
    /\ heap[1]._target = None

\* C9: fromdict(fromdict(d.asdict()).asdict()) == fromdict(d.asdict()) whenever the
\* first call returns a document.
C9_Idempotent ==
    (Len(rt) = 2 /\ ~Cyclic(doc.type)) =>
        (rt[2].type = "ok" /\ Document_eq(ResultWorld(rt[2]), ResultWorld(rt[1])))

\* C10: every entry of asdict() has exactly the fields of its class and _id, holds
\* plain values only, _id is the hash of the annotation, and head and tail of a
\* relation hold the _id of the annotation they reference.
C10_AsdictEntries ==
    Len(rt) >= 1 =>
        \A n \in Layers, acc \in Accs :
            LET dct == Document_asdict(World)
                entries == IF acc = "annotations" THEN dct[n].annotations
                           ELSE dct[n].predictions
                held == ListOf(doc, n, acc)
            IN  /\ Len(entries) = Len(held)
                /\ \A i \in 1..Len(held) :
                       LET e == entries[i]
                           o == heap[held[i]]
                       IN  /\ DOMAIN e = Range(Fields(o.cls)) \cup {"_id"}
                           /\ \A f \in DOMAIN e : e[f].k \in {"int", "float", "str"}
                           /\ e["_id"].v = Hash(heap, held[i])
                           /\ \A f \in DOMAIN e \cap {"start", "end", "label", "score"} :
                                  e[f].v = o[f]
                           /\ \A f \in DOMAIN e \cap {"head", "tail"} :
                                  /\ e[f].v = Hash(heap, o[f])
                                  /\ e[f].v = asdict(heap, o[f])["_id"].v

\* a serialised document that holds the relation of entity 3 to entity 4
C10_Witness ==
    /\ Len(rt) >= 1
    /\ doc.type = "TestDocument"
    /\ doc.gold["relations"] = <<5>>
    /\ doc.gold["entities"] = <<3, 4>>

\* the hashes of the gold annotations of the document
GoldIds == {Hash(heap, a) : a \in UNION {Range(doc.gold[n]) : n \in Layers}}

\* the gold relations of the document
GoldRelations ==
    {a \in UNION {Range(doc.gold[n]) : n \in Layers} : heap[a].cls = "BinaryRelation"}

\* the objects fromdict builds for the entries of the lists acc of the document
Rebuilt(acc) ==
    {NewRef(acc, LayerIndex(doc.type, n), i) :
        <<n, i>> \in {q \in Layers \X (1..MaxEntries + 1) : q[2] <= Len(ListOf(doc, q[1], acc))}}

\* C11: in fromdict a gold annotation's head and tail are resolved among the rebuilt
\* gold annotations only, a prediction's among the rebuilt gold annotations and
\* predictions; a gold relation whose head or tail id is the id of no gold annotation
\* is not resolved at all (fromdict raises KeyError).
C11_GoldResolvesInGold ==
    (Len(rt) >= 1 /\ ~Cyclic(doc.type)) =>
        /\ rt[1].type = "ok" =>
              /\ \A n \in Layers : \A r \in Range(rt[1].doc.gold[n]) :
                    rt[1].heap[r].cls = "BinaryRelation" =>
                        {rt[1].heap[r].head, rt[1].heap[r].tail} \subseteq Rebuilt("annotations")
              /\ \A n \in Layers : \A r \in Range(rt[1].doc.pred[n]) :
                    rt[1].heap[r].cls = "BinaryRelation" =>
                        {rt[1].heap[r].head, rt[1].heap[r].tail} \subseteq
                            Rebuilt("annotations") \cup Rebuilt("predictions")
        /\ (\E a \in GoldRelations :
                ~({Hash(heap, heap[a].head), Hash(heap, heap[a].tail)} \subseteq GoldIds)) =>
              (rt[1].type = "error" /\ rt[1].exc = "KeyError")

\* a gold relation over an entity that is only a prediction, and fromdict refused it
C11_Witness ==
    /\ Len(rt) >= 1
    /\ doc.type = "TestDocument"
    /\ doc.gold["entities"] = <<>>
    /\ doc.pred["entities"] = <<3, 4>>
    /\ doc.gold["relations"] = <<5>>
    /\ rt[1].type = "error"

\* C12: the annotation graph of TestDocument has one key per targeted name, mapped
\* to the layers that declare it as target: text -> {sentences, entities},
\* entities -> {relations}, and no other key.
C12_GraphKeyedByTarget ==
    (Constructed /\ doc.type = "TestDocument") =>
        /\ DOMAIN doc._annotation_graph = {"text", "entities"}
        /\ Range(doc._annotation_graph["text"]) = {"sentences", "entities"}
        /\ Range(doc._annotation_graph["entities"]) = {"relations"}

\* the document as_type returned
Converted == ResultWorld(ret.result)

\* C13: as_type(T2, field_mapping) returns a document of type T2 in which every layer
\* that a source layer is mapped to equals that source layer (gold and predictions),
\* and every plain field keeps its value.
C13_AsTypeKeepsLayers ==
    (ret.op = "as_type" /\ ret.result.type = "ok") =>
        /\ Converted.doc.type = ret.new_type
        /\ Converted.doc.plain = doc.plain
        /\ \A k \in Layers :
              mapping_get(ret.field_mapping, k) \in LayerNames(ret.new_type) =>
                  AnnotationList_eq(FALSE, Converted, mapping_get(ret.field_mapping, k), World, k)

\* the names under which as_type hands fromdict a value that is not None
Supplied ==
    {mapping_get(ret.field_mapping, k) :
        k \in {f \in Range(FieldOrder(doc.type)) : Document_asdict(World)[f].k # "none"}}

\* C14: as_type drops the source fields that T2 has no field for without any
\* error, leaves the layers only T2 declares empty, and raises only when T2's
\* constructor requires a field the source does not supply. Stated for sources whose
\* relations reference attached annotations.
C14_AsTypeDropsSilently ==
    (ret.op = "as_type" /\ Intact) =>
        /\ ret.result.type = "error" <=> ~(RequiredPlain(ret.new_type) \subseteq Supplied)
        /\ ret.result.type = "ok" =>
              \A n \in LayerNames(ret.new_type) \ Supplied :
                  Converted.doc.gold[n] = <<>> /\ Converted.doc.pred[n] = <<>>

\* what document[key] is to return: the layer of a declared name, KeyError otherwise
ExpectedItem(key) ==
    IF key \in LayerNames(doc.type)
    THEN [exc |-> "", value |-> LayerV(key)]
    ELSE [exc |-> "KeyError", value |-> StrV("Document has no attribute '" \o key \o "'.")]

\* C15: document[name] returns the layer for a declared layer name and raises
\* KeyError "Document has no attribute '<name>'." for every other name, the names
\* of plain fields included; it leaves the document as it is.
C15_GetItem ==
    [][\A key \in Keys :
          DoGetItem(key) =>
              /\ ret'.result = ExpectedItem(key)
              /\ doc' = doc
              /\ heap' = heap]_vars

\* the name of a plain field was asked for and refused
C15_Witness ==
    /\ ret.op = "getitem"
    /\ ret.key = "text"
    /\ ret.result.exc = "KeyError"
    /\ Entries(doc) >= 1

\* the output that belongs to one encoding: what unbatch_output makes of its row alone
OutputOfRow(row) == unbatch_output(<<row>>)[1]

\* C16: for N encodings collated into one batch, unbatch_output returns N outputs,
\* the i-th made of row i of the model output; so after forwarding the encodings in
\* batches of any size there is one output per encoding, in the order of the
\* encodings, and Pipeline.__call__ passes its length check.
C16_OneOutputPerEncoding ==
    /\ call.op = "forward" =>
          /\ Len(decoded_outputs) = Len(encodings)
          /\ \A i \in 1..Len(encodings) : decoded_outputs[i] = OutputOfRow(call.logits[i])
    /\ call.op = "pipeline" =>
          /\ call.result.exc = ""
          /\ Len(call.result.model_outputs) = Len(call.result.model_inputs)

\* the lists encode zips in the call at hand: the inputs, the metadata, the expanded
\* documents (the documents passed in when encode_input returns None for them) and,
\* when targets were encoded, the targets
ZippedDocuments ==
    IF call.encode_input.new_documents = None THEN InputDocuments
    ELSE call.encode_input.new_documents.v

WithTargets == call.encode_target /\ call.target_encoding # None

ZippedLengths ==
    {Len(call.encode_input.input_encoding), Len(call.encode_input.metadata),
     Len(ZippedDocuments)}
        \cup IF WithTargets THEN {Len(call.target_encoding.v)} ELSE {}

\* C17: encode returns one TaskEncoding per input encoding, the i-th carrying the
\* i-th input, metadata and expanded document, and the i-th target when targets were
\* encoded; when the lists differ in length it raises AssertionError and returns
\* nothing.
C17_EncodeAlignedOrFails ==
    call.op = "encode" =>
        IF Cardinality(ZippedLengths) = 1
        THEN /\ call.result.exc = ""
             /\ Len(call.result.value) = Len(call.encode_input.input_encoding)
             /\ \A i \in 1..Len(call.result.value) :
                   /\ call.result.value[i].input = call.encode_input.input_encoding[i]
                   /\ call.result.value[i].metadata = call.encode_input.metadata[i]
                   /\ call.result.value[i].document = ZippedDocuments[i]
                   /\ call.result.value[i].target =
                          IF WithTargets THEN call.target_encoding.v[i] ELSE None
        ELSE /\ call.result.exc = "AssertionError"
             /\ call.result.value = <<>>
             /\ encodings = <<>>

\* encode_target returned fewer targets than encode_input returned encodings
C17_Witness ==
    /\ call.op = "encode"
    /\ WithTargets
    /\ Len(call.encode_input.input_encoding) = 2
    /\ Len(call.encode_input.metadata) = 2
    /\ Len(ZippedDocuments) = 2
    /\ Len(call.target_encoding.v) = 1
    /\ call.result.exc = "AssertionError"

\* the annotations of layer n among the (layer, annotation) pairs
RECURSIVE OfLayer(_, _)
OfLayer(pairs, n) ==
    IF pairs = <<>> THEN <<>>
    ELSE (IF pairs[1][1] = n THEN <<pairs[1][2]>> ELSE <<>>) \o OfLayer(Tail(pairs), n)

\* the annotations the outputs produce for layer n of document d, in the order of the
\* encodings that came from d
RECURSIVE PredictedFor(_, _, _, _)
PredictedFor(d, n, encodings_, decoded_outputs_) ==
    IF encodings_ = <<>> \/ decoded_outputs_ = <<>> THEN <<>>
    ELSE (IF encodings_[1].document = d
          THEN OfLayer(create_annotations_from_output(decoded_outputs_[1], encodings_[1]), n)
          ELSE <<>>)
         \o PredictedFor(d, n, Tail(encodings_), Tail(decoded_outputs_))

\* the input document an object is, or is the copy of
OriginalOf(o) ==
    IF o \in Range(InputDocuments) THEN o
    ELSE CHOOSE d \in Range(InputDocuments) : CopyOf(d) = o

\* the object that carries the predictions of input document d after decode
Decoded(d) == IF call.inplace THEN d ELSE CopyOf(d)

\* C18: decode leaves the gold annotations of every layer of every document it is
\* given or returns as they were, and every annotation produced from an output is
\* appended to the predictions of the layer it names, on the document its encoding
\* came from (the copy of it with inplace=False); the same holds for the decode that
\* ends a pipeline call.
C18_DecodeKeepsGold ==
    /\ call.op = "decode" =>
          /\ \A o \in DOMAIN documents :
                documents[o].annotations = call.before[OriginalOf(o)].annotations
          /\ \A d \in Range(InputDocuments), n \in TaskLayers :
                documents[Decoded(d)].predictions[n] =
                    call.before[d].predictions[n]
                        \o PredictedFor(d, n, encodings, decoded_outputs)
    /\ call.op = "pipeline" =>
          \A o \in DOMAIN documents :
              documents[o].annotations = call.before[OriginalOf(o)].annotations

\* two encodings, of the second and the first document, each with a predicted relation
\* that went to its own document, next to the prediction the first document had
C18_Witness ==
    /\ call.op = "decode"
    /\ call.inplace
    /\ Len(encodings) = 2
    /\ encodings[1].document = 2
    /\ encodings[2].document = 1
    /\ Len(decoded_outputs) = 2
    /\ Len(documents[1].predictions[relation_annotation]) = 2
    /\ documents[1].predictions[relation_annotation][2].head = 2
    /\ Len(documents[2].predictions[relation_annotation]) = 1
    /\ documents[2].predictions[relation_annotation][1].head = 1

\* the list holds every object once
NoRepeat(lst) == Cardinality(Range(lst)) = Len(lst)

\* C19: decode with inplace=False leaves every input document as it was, the
\* predictions of every layer included, and returns one document per input document,
\* none of them an input document.
C19_NotInplaceLeavesInputs ==
    (call.op = "decode" /\ ~call.inplace) =>
        /\ \A d \in Range(InputDocuments) : documents[d] = call.before[d]
        /\ Len(call.result) = Len(InputDocuments)
        /\ NoRepeat(call.result)
        /\ Range(call.result) \cap Range(InputDocuments) = {}
        /\ {OriginalOf(o) : o \in Range(call.result)} = Range(InputDocuments)

\* a relation was predicted for the first document, which had one from before: the
\* copy holds both, the input document the earlier one only
C19_Witness ==
    /\ call.op = "decode"
    /\ ~call.inplace
    /\ \E i \in 1..Len(encodings) : encodings[i].document = 1
    /\ Len(documents[1].predictions[relation_annotation]) = 1
    /\ Len(documents[CopyOf(1)].predictions[relation_annotation]) = 2

\* C20: decode with inplace=True returns the input documents themselves, each once,
\* whether a document has several encodings or none, and the predictions are on them.
C20_InplaceReturnsInputs ==
    (call.op = "decode" /\ call.inplace) =>
        /\ Len(call.result) = Len(InputDocuments)
        /\ NoRepeat(call.result)
        /\ Range(call.result) = Range(InputDocuments)
        /\ DOMAIN documents = Range(InputDocuments)
        /\ \A i \in 1..Len(call.result), n \in TaskLayers :
              Len(documents[call.result[i]].predictions[n]) =
                  Len(call.before[call.result[i]].predictions[n])
                      + Len(PredictedFor(call.result[i], n, encodings, decoded_outputs))

\* the first document has two encodings and the second has none; both are returned
\* and the first holds the two predicted relations
C20_Witness ==
    /\ call.op = "decode"
    /\ call.inplace
    /\ Len(encodings) = 2
    /\ \A i \in 1..2 : encodings[i].document = 1
    /\ Len(decoded_outputs) = 2
    /\ Len(documents[1].predictions[relation_annotation]) = 2
    /\ call.before[1].predictions[relation_annotation] = <<>>
    /\ Range(call.result) = {1, 2}

\* C21: once a module has been prepared, a further prepare() raises nothing, runs
\* neither _prepare nor _post_prepare again, leaves the prepared attributes as they
\* are and logs one warning; the module stays prepared.
C21_RePrepareIsNoOp ==
    [][(/\ module # NoModule
        /\ module.prepare_runs >= 1
        /\ is_prepared(module)
        /\ module' # module) =>
           /\ module'.exc = ""
           /\ module'.prepare_runs = module.prepare_runs
           /\ module'.post_prepare_runs = module.post_prepare_runs
           /\ module'.attributes = module.attributes
           /\ module'.warnings = module.warnings + 1
           /\ is_prepared(module')]_vars

\* C22: encode calls encode_target exactly when encode_target=True is passed; without
\* it no TaskEncoding carries a target, with it the i-th TaskEncoding carries the i-th
\* target encode_target returned.
C22_TargetOnlyOnRequest ==
    call.op = "encode" =>
        /\ call.result.encode_target_called <=> call.encode_target
        /\ \A i \in 1..Len(call.result.value) :
              call.result.value[i].target =
                  IF call.encode_target /\ call.target_encoding # None
                  THEN call.target_encoding.v[i] ELSE None

\* two encodings with their targets
C22_Witness ==
    /\ call.op = "encode"
    /\ call.encode_target
    /\ call.result.encode_target_called
    /\ Len(encodings) = 2
    /\ encodings[1].target = TargetOf(1)
    /\ encodings[2].target = TargetOf(2)

\* every encoding of the collated list carries a target
AllTargets == \A i \in 1..Len(call.encodings) : call.encodings[i].target # None

\* C23: collate returns a batched target exactly when all encodings of the list
\* carry a target, row i of it built from the target of encoding i, and None as the
\* target otherwise; the batched input has one row per encoding, in list order.
C23_CollateTargets ==
    call.op = "collate" =>
        /\ call.result.exc = ""
        /\ Len(call.result.input) = Len(call.encodings)
        /\ \A i \in 1..Len(call.encodings) :
              SubSeq(call.result.input[i], 1, Len(call.encodings[i].input.input_ids))
                  = call.encodings[i].input.input_ids
        /\ call.result.target # None <=> AllTargets
        /\ AllTargets =>
              \A i \in 1..Len(call.encodings) :
                  IF call.cls = "TransformerTextClassificationTaskModule"
                  THEN <<call.result.target.v[i]>> = call.encodings[i].target.v
                  ELSE SubSeq(call.result.target.v[i], 1, Len(call.encodings[i].target.v))
                           = call.encodings[i].target.v

\* the span starts at the first character of a token and ends after the last
\* character of a token
OnTokenBoundaries(char_span, token_offset_mapping) ==
    /\ \E t \in 1..Len(token_offset_mapping) :
          /\ token_offset_mapping[t][1] < token_offset_mapping[t][2]
          /\ token_offset_mapping[t][1] = char_span.start
    /\ \E t \in 1..Len(token_offset_mapping) :
          /\ token_offset_mapping[t][1] < token_offset_mapping[t][2]
          /\ token_offset_mapping[t][2] = char_span.end

\* the characters the tokens of a token span range over
CharactersOf(token_span, token_offset_mapping) ==
    [start |-> token_offset_mapping[token_span.start + 1][1],
     end |-> token_offset_mapping[token_span.end][2]]

\* C24: a character span whose start or end is not on a token boundary is never
\* converted to a token span: the strict conversion raises, the non-strict one
\* leaves the span out with a warning; every span of the result covers exactly the
\* characters of its source span.
C24_UnalignedNeverConverted ==
    call.op = "convert" =>
        LET unaligned == {i \in 1..Len(call.spans) :
                             ~OnTokenBoundaries(call.spans[i], call.token_offset_mapping)}
        IN  /\ (unaligned # {} /\ call.strict_span_conversion) =>
                   call.result.exc = "ValueError"
            /\ ~call.strict_span_conversion =>
                   /\ call.result.exc = ""
                   /\ \A i \in unaligned :
                         /\ call.spans[i] \in call.result.removed
                         /\ \A o \in call.result.override : o.source # call.spans[i]
                   /\ call.result.warnings >= Cardinality({call.spans[i] : i \in unaligned})
            /\ \A o \in call.result.override :
                   CharactersOf(o.token_span, call.token_offset_mapping) = o.source

\* the permutations of 1..n
RowPermutations(n) == {p \in [1..n -> 1..n] : \A i, j \in 1..n : p[i] = p[j] => i = j}

\* C25: the unbatched output for encoding i depends only on row i of the model
\* output: permuting the rows of the batch before unbatch_output gives the
\* per-encoding outputs of the unpermuted batch arranged by the same permutation,
\* and for the single-label modules the label of row i is the label whose id is the
\* arg-max of row i.
C25_UnbatchRowwise ==
    call.op = "unbatch" =>
        LET n == Len(call.logits)
        IN  /\ Len(call.result) = n
            /\ \A p \in RowPermutations(n) :
                  LET permuted == unbatch_output_of(call.cls, [i \in 1..n |-> call.logits[p[i]]])
                  IN  /\ Len(permuted) = n
                      /\ \A i \in 1..n : permuted[i] = call.result[p[i]]
            /\ call.cls # "TransformerTokenClassificationTaskModule" =>
                  \A i \in 1..n :
                      call.result[i].labels = <<id_to_label[argmax(softmax(call.logits[i]))]>>

\* the documents of a split
DocumentsOf(split) == split.v

\* C26: a DocumentMetric called with a dictionary of splits returns one result per
\* split name, each equal to the result of a freshly reset metric updated with
\* exactly the documents of that split, whatever the metric held before the call and
\* whatever the other splits contain.
C26_SplitResultsIndependent ==
    call.op = "metric_splits" =>
        /\ Len(call.result) = Len(call.splits)
        /\ dict_keys(call.result) = {call.splits[i].key : i \in 1..Len(call.splits)}
        /\ \A i \in 1..Len(call.splits) :
              dict_getitem(call.result, call.splits[i].key) =
                  compute(update_all(metric_reset(call.before),
                                     DocumentsOf(call.splits[i].value)), FALSE).value

C26_Witness ==
    /\ call.op = "metric_splits"
    /\ call.before # <<>>
    /\ Len(call.splits) = 2
    /\ DocumentsOf(call.splits[1].value) = <<1>>
    /\ DocumentsOf(call.splits[2].value) = <<2, 2>>
    /\ dict_getitem(call.result, call.splits[2].key) = <<2, 2>>

\* C27: in every reachable document state, every annotation held by the gold list
\* or the predictions list of a layer has the target the layer resolves to (the text,
\* the targeted layer, None for an untargeted layer), also when one annotation object
\* is held by two lists and one of them is cleared.
C27_ListedAnnotationsBound ==
    Constructed =>
        \A n \in LayerNames(doc.type), acc \in Accs :
            \A a \in Range(ListOf(doc, n, acc)) :
                heap[a]._target = ExpectedTarget(doc, n)

\* C28: after any sequence of prepare(documents) calls on one task module, with
\* the same or with different document sets, label_to_id maps the null label ("O",
\* or "no_relation" for relation classification) to 0 and is injective, and
\* id_to_label is its exact inverse: id_to_label[label_to_id[l]] == l for every
\* known label l.
C28_VocabularyBijective ==
    (taskmodule # NoModule /\ taskmodule.prepare_calls >= 1) =>
        LET label_to_id == taskmodule.label_to_id
            id_to_label_ == taskmodule.id_to_label
        IN  /\ dict_index(label_to_id, null_label(taskmodule.cls)) # 0
            /\ dict_getitem(label_to_id, null_label(taskmodule.cls)) = 0
            /\ \A i, j \in 1..Len(label_to_id) :
                  label_to_id[i].value = label_to_id[j].value => i = j
            /\ \A i \in 1..Len(label_to_id) :
                  /\ dict_index(id_to_label_, label_to_id[i].value) # 0
                  /\ dict_getitem(id_to_label_, label_to_id[i].value) = label_to_id[i].key
            /\ Len(id_to_label_) = Len(label_to_id)

\* C29: d.as_type(T2, field_mapping) leaves d unchanged and returns a document that
\* shares no mutable state with d: an append or clear on a layer of the result and a
\* change of the result's metadata leave d's layers, the targets of d's annotations
\* and d's metadata as they were, and the other way round.
C29_AsTypeSharesNothing ==
    [][/\ (\E new_type \in NewTypes, field_mapping \in FieldMappings :
              \E order \in Perms(Roots(new_type)) : DoAsType(new_type, field_mapping, order))
              => (doc' = doc /\ heap' = heap)
       /\ (DoSetMetadata("result") \/ ResultClear \/ ResultAppend)
              => (doc' = doc /\ heap' = heap)
       /\ (DoSetMetadata("source") \/ SourceClear)
              => ret' = ret]_vars

====
